---- MODULE Spec2Model ----
(***************************************************************************)
(* My-City board game: street scoring (ScoringService), placement rules    *)
(* (placement-rules.util), session state (GameStateService), board         *)
(* (BoardService) and the turn state machine driven by AppComponent,       *)
(* DiceComponent and GameBoardComponent.                                   *)
(*                                                                         *)
(* Where the sources hold several revisions of a file, the newest one is   *)
(* modelled: AppComponent with the computed signals and the placement      *)
(* utilities, DiceComponent on GameStateService, the placement rules with  *)
(* getNextPlacementState.  Round completion and the bonus stage follow     *)
(* GameBoardComponent.  Timeouts are kept in a list in the order they were *)
(* set; one set earlier with a delay that is not longer runs first.        *)
(***************************************************************************)
EXTENDS Integers, Sequences, FiniteSets, TLC

(***************************************************************************)
(* Building taxonomy and configuration                                     *)
(***************************************************************************)
HOUSE == "house"
LAKE == "waves"
FOREST == "tree-deciduous"
SQUARE == "flag-triangle-right"
Null == "null"

Buildings == {HOUSE, LAKE, FOREST, SQUARE}
Cell == Buildings \cup {Null}

\* DEFAULT_GAME_CONFIG
Rows == 5
Cols == 6

pointMatrix ==
  << <<3, 0, 2, 2, 0, 3>>,
     <<0, 1, 0, 0, 1, 0>>,
     <<2, 0, 1, 1, 0, 2>>,
     <<0, 1, 0, 0, 1, 0>>,
     <<3, 0, 2, 2, 0, 3>> >>

Cells == (0 .. Rows - 1) \X (0 .. Cols - 1)

createEmptyBoard == [c \in Cells |-> Null]

(***************************************************************************)
(* Bounds of the scoring inputs                                            *)
(***************************************************************************)
\* boards given to the scoring functions hold buildings only in the six cells
\* of rows 1..3 and columns 0..1, at most MaxBuildings of them
MaxBuildings == 3

ScoreCells == (1 .. 3) \X (0 .. 1)

DiceSums == 2 .. 12
\* selectedRow: number | null, a number r held as <<r>> and null as << >>
NullRow == << >>
RowChoices == {NullRow} \cup {<<r>> : r \in 0 .. Rows - 1}

(***************************************************************************)
(* ScoringService                                                          *)
(***************************************************************************)
getCellPoints(row, col) ==
  IF row \in 0 .. Rows - 1 /\ col \in 0 .. Cols - 1
    THEN pointMatrix[row + 1][col + 1]
    ELSE 0

\* the table with row 0 as the street of the sums 2 and 12 when no row is chosen
getTargetRowDefaultsToZero(diceSum, selectedRow) ==
  IF diceSum = 2 \/ diceSum = 12
    THEN (IF selectedRow # NullRow THEN selectedRow[1] ELSE 0)
    ELSE CASE diceSum \in {3, 4} -> 0
           [] diceSum \in {5, 6} -> 1
           [] diceSum = 7 -> 2
           [] diceSum \in {8, 9} -> 3
           [] diceSum \in {10, 11} -> 4
           [] OTHER -> -1

getTargetRowFromDiceSum(diceSum, selectedRow) ==
  IF diceSum = 2 \/ diceSum = 12
    THEN (IF selectedRow # NullRow THEN selectedRow[1] ELSE -1)
    ELSE CASE diceSum \in {3, 4} -> 0
           [] diceSum \in {5, 6} -> 1
           [] diceSum = 7 -> 2
           [] diceSum \in {8, 9} -> 3
           [] diceSum \in {10, 11} -> 4
           [] OTHER -> -1

\* the four cells queued after a cell joins the group: up, down, left, right
adjacentCellsNoLeft(row, col) ==
  << <<row - 1, col>>, <<row + 1, col>>, <<row, col + 1>> >>

\* a fill that only moves on in reading order: down and right
adjacentCellsDownRight(row, col) ==
  << <<row + 1, col>>, <<row, col + 1>> >>

adjacentCells(row, col) ==
  << <<row - 1, col>>, <<row + 1, col>>, <<row, col - 1>>, <<row, col + 1>> >>

RECURSIVE findConnectedGroupLoop(_, _, _, _, _, _)
findConnectedGroupLoop(b, buildingType, queue, visitedLocal, visitedGlobal, group) ==
  IF queue = << >>
    THEN [group |-> group, visitedGlobal |-> visitedGlobal]
    ELSE
      LET cell == Head(queue)
          rest == Tail(queue)
      IN  IF cell \in visitedLocal \/ cell \in visitedGlobal
            THEN findConnectedGroupLoop(b, buildingType, rest, visitedLocal, visitedGlobal, group)
          ELSE IF cell[1] < 0 \/ cell[1] >= Rows \/ cell[2] < 0 \/ cell[2] >= Cols
            THEN findConnectedGroupLoop(b, buildingType, rest, visitedLocal, visitedGlobal, group)
          ELSE IF b[cell] # buildingType
            THEN findConnectedGroupLoop(b, buildingType, rest, visitedLocal, visitedGlobal, group)
          ELSE findConnectedGroupLoop(b, buildingType,
                                      rest \o adjacentCells(cell[1], cell[2]),
                                      visitedLocal \cup {cell},
                                      visitedGlobal \cup {cell},
                                      Append(group, cell))

findConnectedGroup(b, startRow, startCol, buildingType, visitedGlobal) ==
  findConnectedGroupLoop(b, buildingType, << <<startRow, startCol>> >>, {}, visitedGlobal, << >>)

\* the row-major pass of calculateStreetScore: the groups in discovery order
RECURSIVE discoverGroupsFrom(_, _, _, _)
discoverGroupsFrom(b, idx, visitedCells, groups) ==
  IF idx >= Rows * Cols
    THEN groups
    ELSE
      LET row == idx \div Cols
          col == idx % Cols
          building == b[<<row, col>>]
      IN  IF <<row, col>> \in visitedCells
            THEN discoverGroupsFrom(b, idx + 1, visitedCells, groups)
          ELSE IF building = Null \/ building = SQUARE
            THEN discoverGroupsFrom(b, idx + 1, visitedCells, groups)
          ELSE
            LET found == findConnectedGroup(b, row, col, building, visitedCells)
            IN  discoverGroupsFrom(b, idx + 1, found.visitedGlobal, Append(groups, found.group))

discoverGroups(b) == discoverGroupsFrom(b, 0, {}, << >>)

\* the cells in the order of the two nested loops of calculateStreetScore
rowMajorOrder == [i \in 1 .. Rows * Cols |-> <<(i - 1) \div Cols, (i - 1) % Cols>>]

\* the pass of calculateStreetScore with the start cells taken from `order`
\* instead of the nested loops
RECURSIVE discoverGroupsInOrder(_, _, _, _, _)
discoverGroupsInOrder(b, order, i, visitedCells, groups) ==
  IF i > Len(order)
    THEN groups
    ELSE
      LET cell == order[i]
          building == b[cell]
      IN  IF cell \in visitedCells
            THEN discoverGroupsInOrder(b, order, i + 1, visitedCells, groups)
          ELSE IF building = Null \/ building = SQUARE
            THEN discoverGroupsInOrder(b, order, i + 1, visitedCells, groups)
          ELSE
            LET found == findConnectedGroup(b, cell[1], cell[2], building, visitedCells)
            IN  discoverGroupsInOrder(b, order, i + 1, found.visitedGlobal,
                                      Append(groups, found.group))

hasBuildingOnTargetStreet(group, targetRow) ==
  \E i \in 1 .. Len(group) : group[i][1] = targetRow

RECURSIVE sumPoints(_, _)
sumPoints(group, i) ==
  IF i > Len(group) THEN 0
  ELSE getCellPoints(group[i][1], group[i][2]) + sumPoints(group, i + 1)

RECURSIVE sumPointsOnRow(_, _, _)
sumPointsOnRow(group, targetRow, i) ==
  IF i > Len(group) THEN 0
  ELSE (IF group[i][1] = targetRow THEN getCellPoints(group[i][1], group[i][2]) ELSE 0)
       + sumPointsOnRow(group, targetRow, i + 1)

groupScoreTargetRowOnly(group, targetRow) ==
  IF hasBuildingOnTargetStreet(group, targetRow) THEN sumPointsOnRow(group, targetRow, 1) ELSE 0

\* what one discovered group adds to totalScore
groupScore(group, targetRow) ==
  IF hasBuildingOnTargetStreet(group, targetRow) THEN sumPoints(group, 1) ELSE 0

RECURSIVE totalOfGroups(_, _, _)
totalOfGroups(groups, targetRow, i) ==
  IF i > Len(groups) THEN 0
  ELSE groupScore(groups[i], targetRow) + totalOfGroups(groups, targetRow, i + 1)

calculateStreetScoreInOrder(diceSum, b, selectedRow, order) ==
  LET targetRow == getTargetRowFromDiceSum(diceSum, selectedRow)
  IN  IF targetRow = -1 THEN 0
      ELSE totalOfGroups(discoverGroupsInOrder(b, order, 1, {}, << >>), targetRow, 1)

calculateStreetScore(diceSum, b, selectedRow) ==
  LET targetRow == getTargetRowFromDiceSum(diceSum, selectedRow)
  IN  IF targetRow = -1 THEN 0
      ELSE totalOfGroups(discoverGroups(b), targetRow, 1)

\* points of one plaza that has a house, a forest and a lake beside it
PlazaBonusPoints == 10

inBounds(cell) ==
  cell[1] >= 0 /\ cell[1] < Rows /\ cell[2] >= 0 /\ cell[2] < Cols

\* the in-bounds neighbours, in the order up, down, left, right, that hold a
\* building other than a SQUARE
adjacentBuildingCells(b, row, col) ==
  SelectSeq(adjacentCells(row, col),
            LAMBDA cell : inBounds(cell) /\ b[cell] # Null /\ b[cell] # SQUARE)

\* a plaza with any two building types beside it
isPlazaAdjacentToTwoTypes(b, row, col) ==
  LET cells == adjacentBuildingCells(b, row, col)
  IN  Cardinality({b[cells[i]] : i \in 1 .. Len(cells)}) >= 2

\* a plaza with three buildings beside it, whatever their types
isPlazaAdjacentToThreeBuildings(b, row, col) ==
  Len(adjacentBuildingCells(b, row, col)) >= 3

isPlazaAdjacentToAllThree(b, row, col) ==
  LET cells == adjacentBuildingCells(b, row, col)
      neighbors == {b[cells[i]] : i \in 1 .. Len(cells)}
  IN  HOUSE \in neighbors /\ FOREST \in neighbors /\ LAKE \in neighbors

RECURSIVE getPlazaBonusCellsFrom(_, _)
getPlazaBonusCellsFrom(b, idx) ==
  IF idx >= Rows * Cols
    THEN << >>
    ELSE
      LET row == idx \div Cols
          col == idx % Cols
          cells == adjacentBuildingCells(b, row, col)
      IN  IF b[<<row, col>>] = SQUARE /\ isPlazaAdjacentToAllThree(b, row, col)
            THEN << [plaza |-> <<row, col>>,
                     adjacentBuildings |->
                       [i \in 1 .. Len(cells) |->
                          [row |-> cells[i][1], col |-> cells[i][2],
                           building |-> b[cells[i]]]]] >>
                 \o getPlazaBonusCellsFrom(b, idx + 1)
            ELSE getPlazaBonusCellsFrom(b, idx + 1)

getPlazaBonusCells(b) == getPlazaBonusCellsFrom(b, 0)

RECURSIVE calculatePlazaBonusFrom(_, _)
calculatePlazaBonusFrom(b, idx) ==
  IF idx >= Rows * Cols
    THEN 0
    ELSE
      LET row == idx \div Cols
          col == idx % Cols
      IN  (IF b[<<row, col>>] = SQUARE /\ isPlazaAdjacentToAllThree(b, row, col)
             THEN PlazaBonusPoints ELSE 0)
          + calculatePlazaBonusFrom(b, idx + 1)

\* the bonus paid once, however many plazas have the three types beside them
calculatePlazaBonusOnce(b) ==
  IF \E c \in Cells : b[c] = SQUARE /\ isPlazaAdjacentToAllThree(b, c[1], c[2])
    THEN PlazaBonusPoints ELSE 0

calculatePlazaBonus(b) == calculatePlazaBonusFrom(b, 0)

(***************************************************************************)
(* Bounds of the game inputs and the session configuration                 *)
(***************************************************************************)
\* dice show the faces 1..MaxFace; clicks reach rows 0..MaxClickRow of the
\* columns the dice can name
MaxFace == 2
MaxClickRow == 1
\* GameConfig of the session: maxRounds rounds, every bonusPeriod-th a bonus
\* round, bonusPeriod at most BonusEvery
maxRounds == 2
BonusEvery == 2
\* dice rolls made in one run
MaxRolls == 3

Faces == 1 .. MaxFace
ClickCells == {c \in Cells : c[1] \in 0 .. MaxClickRow /\ c[2] \in 0 .. MaxFace - 1}

\* header buttons pressed in a run
HeaderButtons == {HOUSE, LAKE, SQUARE}

\* currentRolls: number[] | null, null held as << >>
NoRolls == << >>

\* setTimeout delays in milliseconds
ClearDiceDelay == 100
ScoreDelay == 500
AdvanceDelay == 2000
BonusCompleteDelay == 100

(***************************************************************************)
(* PlacementState and its predicates                                       *)
(***************************************************************************)
PREP_FIRST == "prep_first"
PREP_SECOND == "prep_second"
PREP_DOUBLES_FIRST == "prep_doubles_first"
PREP_DOUBLES_SECOND == "prep_doubles_second"
FIRST == "first"
SECOND == "second"
COMPLETE == "complete"
DOUBLES_FIRST == "doubles_first"
DOUBLES_SQUARE == "doubles_square"
BONUS == "bonus"

PlacementState ==
  {PREP_FIRST, PREP_SECOND, PREP_DOUBLES_FIRST, PREP_DOUBLES_SECOND,
   FIRST, SECOND, COMPLETE, DOUBLES_FIRST, DOUBLES_SQUARE, BONUS}

isPreparationPhase(state) ==
  state \in {PREP_FIRST, PREP_SECOND, PREP_DOUBLES_FIRST, PREP_DOUBLES_SECOND}

isBonusStage(state) == state = BONUS

isFirstPlacement(state) ==
  state \in {FIRST, DOUBLES_FIRST, PREP_FIRST, PREP_DOUBLES_FIRST}

isSecondPlacement(state) ==
  state \in {SECOND, DOUBLES_SQUARE, PREP_SECOND, PREP_DOUBLES_SECOND}

(***************************************************************************)
(* buildings.model                                                         *)
(***************************************************************************)
\* the mapping continued by thirds beyond the faces of a die
getBuildingFromDiceByThirds(diceValue) ==
  CASE diceValue % 3 = 1 -> HOUSE
    [] diceValue % 3 = 0 -> LAKE
    [] diceValue % 3 = 2 -> FOREST

getBuildingFromDice(diceValue) ==
  CASE diceValue \in {1, 4} -> HOUSE
    [] diceValue \in {3, 6} -> LAKE
    [] diceValue \in {2, 5} -> FOREST
    [] OTHER -> "Error: Invalid dice value"

(***************************************************************************)
(* placement-rules.util                                                    *)
(***************************************************************************)
\* board[row][col] of a column outside the board is undefined, which is not null
cellAt(b, row, col) ==
  IF <<row, col>> \in Cells THEN b[<<row, col>>] ELSE "undefined"

\* a column taken for full as soon as its first row is occupied
isColumnFullTopRow(b, col) == cellAt(b, 0, col) # Null

isColumnFull(b, col) ==
  \A row \in 0 .. Rows - 1 : cellAt(b, row, col) # Null

countEmptySpaces(b, col) ==
  Cardinality({row \in 0 .. Rows - 1 : cellAt(b, row, col) = Null})

\* the fallback with ties resolved to the left neighbour
getAdjacentColumnsLeftWins(b, targetCol, totalCols) ==
  LET leftCol == targetCol - 1
      rightCol == targetCol + 1
  IN  IF leftCol < 0 /\ rightCol >= totalCols THEN {}
      ELSE IF leftCol < 0 THEN {rightCol}
      ELSE IF rightCol >= totalCols THEN {leftCol}
      ELSE IF countEmptySpaces(b, rightCol) > countEmptySpaces(b, leftCol) THEN {rightCol}
      ELSE {leftCol}

getAdjacentColumns(b, targetCol, totalCols) ==
  LET leftCol == targetCol - 1
      rightCol == targetCol + 1
      hasLeft == leftCol >= 0
      hasRight == rightCol < totalCols
      leftEmpty == countEmptySpaces(b, leftCol)
      rightEmpty == countEmptySpaces(b, rightCol)
  IN  IF ~hasLeft /\ ~hasRight THEN {}
      ELSE IF ~hasLeft THEN {rightCol}
      ELSE IF ~hasRight THEN {leftCol}
      ELSE IF leftEmpty > rightEmpty THEN {leftCol}
      ELSE IF rightEmpty > leftEmpty THEN {rightCol}
      ELSE {leftCol, rightCol}

\* number[] | null: [any |-> TRUE] is null (any column), else cols lists them
AnyColumn == [any |-> TRUE, cols |-> {}]
OnlyColumns(S) == [any |-> FALSE, cols |-> S]

\* the target column taken from the other die of the pair
targetColumnOfOtherDie(state, rolls) ==
  CASE state \in {PREP_FIRST, FIRST} -> rolls[2] - 1
    [] state \in {PREP_SECOND, SECOND} -> rolls[1] - 1
    [] state \in {PREP_DOUBLES_FIRST, PREP_DOUBLES_SECOND, DOUBLES_FIRST} -> rolls[1] - 1
    [] OTHER -> -1

targetColumnOf(state, rolls) ==
  CASE state = PREP_FIRST -> rolls[1] - 1
    [] state = PREP_SECOND -> rolls[2] - 1
    [] state \in {PREP_DOUBLES_FIRST, PREP_DOUBLES_SECOND} -> rolls[1] - 1
    [] state = FIRST -> rolls[1] - 1
    [] state = SECOND -> rolls[2] - 1
    [] state = DOUBLES_FIRST -> rolls[1] - 1
    [] OTHER -> -1

getAllowedColumns(state, rolls, b, totalCols) ==
  IF Len(rolls) < 2 THEN AnyColumn
  ELSE IF state \notin {PREP_FIRST, PREP_SECOND, PREP_DOUBLES_FIRST, PREP_DOUBLES_SECOND,
                        FIRST, SECOND, DOUBLES_FIRST}
    THEN AnyColumn
  ELSE IF isColumnFull(b, targetColumnOf(state, rolls))
    THEN OnlyColumns(getAdjacentColumns(b, targetColumnOf(state, rolls), totalCols))
  ELSE OnlyColumns({targetColumnOf(state, rolls)})

\* the building taken from the die that also gives the column
getBuildingToPlaceSameDie(state, rolls, selected) ==
  IF Len(rolls) < 2 /\ state # BONUS THEN Null
  ELSE IF isPreparationPhase(state) THEN selected
  ELSE IF state = BONUS THEN selected
  ELSE CASE state = FIRST -> getBuildingFromDice(rolls[1])
         [] state = SECOND -> getBuildingFromDice(rolls[2])
         [] state = DOUBLES_FIRST -> getBuildingFromDice(rolls[1])
         [] state = DOUBLES_SQUARE -> SQUARE
         [] OTHER -> Null

getBuildingToPlace(state, rolls, selected) ==
  IF Len(rolls) < 2 /\ state # BONUS THEN Null
  ELSE IF isPreparationPhase(state) THEN selected
  ELSE IF state = BONUS THEN selected
  ELSE CASE state = FIRST -> getBuildingFromDice(rolls[2])
         [] state = SECOND -> getBuildingFromDice(rolls[1])
         [] state = DOUBLES_FIRST -> getBuildingFromDice(rolls[1])
         [] state = DOUBLES_SQUARE -> SQUARE
         [] OTHER -> Null

\* the placement check without the test on the cell's occupant
canPlaceInCellAnyOccupant(row, col, state, rolls, b, selected, turnPlacements, availableBonusBuildings) ==
  IF state = BONUS
    THEN /\ selected # Null
         /\ selected \in availableBonusBuildings
    ELSE /\ Len(rolls) >= 2
         /\ state # COMPLETE
         /\ ~(isPreparationPhase(state) /\ selected = Null)
         /\ LET allowedColumns == getAllowedColumns(state, rolls, b, Cols)
            IN  allowedColumns.any \/ col \in allowedColumns.cols

\* the placement check without the test for a selection in the preparation states
canPlaceInCellNoSelection(row, col, state, rolls, b, selected, turnPlacements, availableBonusBuildings) ==
  IF state = BONUS
    THEN /\ selected # Null
         /\ selected \in availableBonusBuildings
         /\ (b[<<row, col>>] = Null \/ <<row, col>> \in turnPlacements)
    ELSE /\ Len(rolls) >= 2
         /\ state # COMPLETE
         /\ (b[<<row, col>>] # Null => <<row, col>> \in turnPlacements)
         /\ LET allowedColumns == getAllowedColumns(state, rolls, b, Cols)
            IN  allowedColumns.any \/ col \in allowedColumns.cols

\* the placement check asking for a roll in the bonus stage too
canPlaceInCellBonusNeedsRoll(row, col, state, rolls, b, selected, turnPlacements, availableBonusBuildings) ==
  /\ Len(rolls) >= 2
  /\ IF state = BONUS
       THEN /\ selected # Null
            /\ selected \in availableBonusBuildings
            /\ (b[<<row, col>>] = Null \/ <<row, col>> \in turnPlacements)
       ELSE /\ state # COMPLETE
            /\ (b[<<row, col>>] # Null => <<row, col>> \in turnPlacements)
            /\ ~(isPreparationPhase(state) /\ selected = Null)
            /\ LET allowedColumns == getAllowedColumns(state, rolls, b, Cols)
               IN  allowedColumns.any \/ col \in allowedColumns.cols

canPlaceInCell(row, col, state, rolls, b, selected, turnPlacements, availableBonusBuildings) ==
  IF state = BONUS
    THEN /\ selected # Null
         /\ selected \in availableBonusBuildings
         /\ (b[<<row, col>>] = Null \/ <<row, col>> \in turnPlacements)
    ELSE /\ Len(rolls) >= 2
         /\ state # COMPLETE
         /\ (b[<<row, col>>] # Null => <<row, col>> \in turnPlacements)
         /\ ~(isPreparationPhase(state) /\ selected = Null)
         /\ LET allowedColumns == getAllowedColumns(state, rolls, b, Cols)
            IN  allowedColumns.any \/ col \in allowedColumns.cols

\* the transition table without the already-placed checks
getNextPlacementStateInOrder(currentState, firstPlaced, secondPlaced) ==
  CASE currentState = PREP_FIRST -> PREP_SECOND
    [] currentState = PREP_DOUBLES_FIRST -> PREP_DOUBLES_SECOND
    [] currentState = FIRST -> SECOND
    [] currentState = DOUBLES_FIRST -> DOUBLES_SQUARE
    [] currentState \in {SECOND, DOUBLES_SQUARE, PREP_SECOND, PREP_DOUBLES_SECOND} -> COMPLETE
    [] OTHER -> currentState

getNextPlacementState(currentState, firstPlaced, secondPlaced) ==
  CASE currentState = PREP_FIRST -> PREP_SECOND
    [] currentState = PREP_DOUBLES_FIRST -> PREP_DOUBLES_SECOND
    [] currentState = FIRST -> (IF secondPlaced THEN COMPLETE ELSE SECOND)
    [] currentState = SECOND -> (IF firstPlaced THEN COMPLETE ELSE FIRST)
    [] currentState = DOUBLES_FIRST -> (IF secondPlaced THEN COMPLETE ELSE DOUBLES_SQUARE)
    [] currentState = DOUBLES_SQUARE -> (IF firstPlaced THEN COMPLETE ELSE DOUBLES_FIRST)
    [] currentState = PREP_SECOND -> (IF firstPlaced THEN COMPLETE ELSE PREP_FIRST)
    [] currentState = PREP_DOUBLES_SECOND -> (IF firstPlaced THEN COMPLETE ELSE PREP_DOUBLES_FIRST)
    [] OTHER -> currentState

shouldTrackTurnPlacement(state) ==
  state \in {FIRST, SECOND, DOUBLES_FIRST, DOUBLES_SQUARE,
             PREP_FIRST, PREP_SECOND, PREP_DOUBLES_FIRST, PREP_DOUBLES_SECOND}

(***************************************************************************)
(* GameBoardComponent scoring (its own dice-sum table)                     *)
(***************************************************************************)
boardTargetRowFromDiceSum(diceSum, playerCanChoose) ==
  IF diceSum = 2 \/ diceSum = 12
    THEN (IF playerCanChoose THEN -1 ELSE 0)
    ELSE getTargetRowFromDiceSum(diceSum, NullRow)

boardStreetScore(diceSum, b) ==
  LET targetRow == boardTargetRowFromDiceSum(diceSum, FALSE)
  IN  IF targetRow = -1 THEN 0
      ELSE totalOfGroups(discoverGroups(b), targetRow, 1)

(***************************************************************************)
(* State                                                                   *)
(***************************************************************************)
VARIABLES
  board,                  \* BoardService._board
  currentRolls,           \* AppComponent.currentRolls
  placementState,         \* AppComponent.placementState
  selectedBuilding,       \* AppComponent.selectedBuilding
  selectedStep,           \* DiceComponent.selectedStep
  currentRound,           \* session: round counter, 0 = preparation
  gameComplete,           \* session: completion flag
  inPreparationPhase,     \* session: preparation flag
  footerScores,           \* session: score per round
  inBonusStage,           \* session: bonus flag
  usedBonusBuildings,     \* session: consumed bonus buildings
  bonusStageBuildings,    \* session: round -> bonus building placed
  currentTurnPlacements,  \* session: cells placed this turn
  firstTurnPlaced,        \* session: first sub-placement made
  secondTurnPlaced,       \* session: second sub-placement made
  timers,                 \* pending setTimeout continuations, in scheduling order
  completedTurnCells,     \* history: cells written in turns that have completed
  rollCount,              \* history: dice rolls made so far
  turnStartCells,         \* history: cells that held a building at the last roll
  scoredRounds,           \* history: rounds whose score has been written in this playthrough
  selectedScoringRow,     \* session: player-selected scoring row, NullRow when none
  bonusPeriod,            \* GameConfig: every bonusPeriod-th round is a bonus round
  rlInput,                \* arguments of the last placement-rule call
  rlOut,                  \* result of that call
  rlPc,                   \* "idle" before the placement-rule call, "done" after it
  scInput,                \* arguments of the last scoring call (dice sum, selected row)
  scScore,                \* result of calculateStreetScore for scInput
  scGroups,               \* groups discovered by the traversal of that call
  scRow,                  \* target row of that call, -1 when there is none
  scPc                    \* "idle" before the scoring call, "done" after it

appVars == <<currentRolls, placementState, selectedBuilding, selectedStep>>
sessionVars ==
  <<currentRound, gameComplete, inPreparationPhase, footerScores, inBonusStage,
    usedBonusBuildings, bonusStageBuildings, currentTurnPlacements,
    firstTurnPlaced, secondTurnPlaced>>
scoreVars == <<scInput, scScore, scGroups, scRow, scPc>>
ruleVars == <<rlInput, rlOut, rlPc>>
\* written by no event of the game
fixedVars == <<selectedScoringRow, bonusPeriod, scoreVars, ruleVars>>
progVars == <<board, appVars, sessionVars>>
histVars == <<completedTurnCells, rollCount, turnStartCells, scoredRounds>>
vars == <<board, appVars, sessionVars, timers, histVars, fixedVars>>

\* GameConfig.bonusStageRounds
bonusStageRounds == {r \in 1 .. maxRounds : r % bonusPeriod = 0}

(***************************************************************************)
(* Construction                                                            *)
(***************************************************************************)
\* GameStateService.initializeGame, BoardService.initializeBoard, AppComponent fields
SessionInit ==
  /\ currentRound = 0
  /\ gameComplete = FALSE
  /\ inPreparationPhase = TRUE
  /\ footerScores = [i \in 1 .. maxRounds |-> 0]
  /\ inBonusStage = FALSE
  /\ usedBonusBuildings = {}
  /\ bonusStageBuildings = << >>
  /\ currentTurnPlacements = {}
  /\ firstTurnPlaced = FALSE
  /\ secondTurnPlaced = FALSE

AppInit ==
  /\ currentRolls = NoRolls
  /\ placementState = PREP_FIRST
  /\ selectedBuilding = Null
  /\ selectedStep = "first"

GameIdle ==
  /\ AppInit
  /\ SessionInit
  /\ timers = << >>
  /\ completedTurnCells = {}
  /\ rollCount = 0
  /\ turnStartCells = {}
  /\ scoredRounds = {}
  /\ selectedScoringRow = NullRow

\* no placement-rule call recorded
RulesIdle ==
  /\ rlInput = << >>
  /\ rlOut = << >>
  /\ rlPc = "idle"

(***************************************************************************)
(* Scoring functions applied to bounded boards                             *)
(***************************************************************************)
ScoreIdle ==
  /\ scInput = [diceSum |-> 0, selectedRow |-> NullRow]
  /\ scScore = 0
  /\ scGroups = << >>
  /\ scRow = -1
  /\ scPc = "idle"

ScoreInit ==
  /\ \E S \in SUBSET ScoreCells :
       /\ Cardinality(S) <= MaxBuildings
       /\ \E f \in [S -> Buildings] :
            board = [c \in Cells |-> IF c \in S THEN f[c] ELSE Null]
  /\ GameIdle
  /\ bonusPeriod = BonusEvery
  /\ ScoreIdle
  /\ RulesIdle

ScoreStreet ==
  /\ scPc = "idle"
  /\ \E diceSum \in DiceSums, selectedRow \in RowChoices :
       /\ scInput' = [diceSum |-> diceSum, selectedRow |-> selectedRow]
       /\ scScore' = calculateStreetScore(diceSum, board, selectedRow)
       /\ scRow' = getTargetRowFromDiceSum(diceSum, selectedRow)
  /\ scGroups' = discoverGroups(board)
  /\ scPc' = "done"
  /\ UNCHANGED <<board, appVars, sessionVars, timers, histVars, selectedScoringRow, bonusPeriod, ruleVars>>

\* the orders of traversal tried on a board: the occupied cells in every
\* order, then the empty cells, which the pass skips
traversalOrders(b) ==
  LET occupied == SelectSeq(rowMajorOrder, LAMBDA c : b[c] # Null)
      empty == SelectSeq(rowMajorOrder, LAMBDA c : b[c] = Null)
  IN  {[i \in 1 .. Len(occupied) |-> occupied[p[i]]] \o empty :
         p \in Permutations(1 .. Len(occupied))}

\* one call of calculateStreetScore beside the same pass made in another order
ScoreStreetReordered ==
  /\ scPc = "idle"
  /\ \E diceSum \in DiceSums, order \in traversalOrders(board) :
       /\ scInput' = [diceSum |-> diceSum, selectedRow |-> NullRow]
       /\ scScore' = calculateStreetScore(diceSum, board, NullRow)
       /\ scRow' = getTargetRowFromDiceSum(diceSum, NullRow)
       /\ rlInput' = [fn |-> "calculateStreetScoreInOrder", order |-> order]
       /\ rlOut' = calculateStreetScoreInOrder(diceSum, board, NullRow, order)
  /\ scGroups' = discoverGroups(board)
  /\ scPc' = "reordered"
  /\ rlPc' = "done"
  /\ UNCHANGED <<board, appVars, sessionVars, timers, histVars, selectedScoringRow, bonusPeriod>>

ScoreNext ==
  \/ ScoreStreet
  \/ ScoreStreetReordered

SpecScore == ScoreInit /\ [][ScoreNext]_vars

(***************************************************************************)
(* Computed signals of AppComponent and DiceComponent                      *)
(***************************************************************************)
isDoublesRoll == Len(currentRolls) = 2 /\ currentRolls[1] = currentRolls[2]

buildingSelectionEnabled ==
  IF isPreparationPhase(placementState) THEN currentRolls # NoRolls
  ELSE isBonusStage(placementState)

selectedBuildingForPlacement ==
  IF isPreparationPhase(placementState) \/ isBonusStage(placementState)
    THEN selectedBuilding ELSE Null

disabledBuildings ==
  {SQUARE} \cup (IF isBonusStage(placementState) THEN usedBonusBuildings ELSE {})

diceRollingDisabled ==
  \/ gameComplete
  \/ (currentRolls # NoRolls /\ placementState # COMPLETE)

stepSwitchingDisabled == currentRolls = NoRolls \/ isBonusStage(placementState)

isStepDisabled(step) == IF step = "first" THEN firstTurnPlaced ELSE secondTurnPlaced

shouldShowReset ==
  (firstTurnPlaced \/ secondTurnPlaced) /\ placementState # COMPLETE

\* every bonus building offered whatever has been used
getAvailableBonusBuildingsAll == {HOUSE, LAKE, FOREST}

getAvailableBonusBuildings == {HOUSE, LAKE, FOREST} \ usedBonusBuildings

\* DiceComponent's effect: the selected step follows the placement state
syncSelectedStep(state, step) ==
  IF isFirstPlacement(state) THEN "first"
  ELSE IF isSecondPlacement(state) THEN "second"
  ELSE step

(***************************************************************************)
(* Pending timeouts                                                        *)
(***************************************************************************)
delayOf(kind) ==
  CASE kind = "clearDice" -> ClearDiceDelay
    [] kind = "score" -> ScoreDelay
    [] kind = "advance" -> AdvanceDelay
    [] kind = "bonusComplete" -> BonusCompleteDelay

\* closeBoard, closeRound and scoreRan are history: the board and the round
\* counter at the closing placement whose completion the timeout continues,
\* and whether the scoring step of that completion has run
newTimer(kind, diceSum, closeBoard, closeRound, scoreRan) ==
  [kind |-> kind, diceSum |-> diceSum, closeBoard |-> closeBoard,
   closeRound |-> closeRound, scoreRan |-> scoreRan]

plainTimer(kind) == newTimer(kind, 0, createEmptyBoard, 0, FALSE)

\* a timeout set earlier with a delay that is not longer runs first
canFire(i) ==
  \A j \in 1 .. i - 1 : delayOf(timers[j].kind) > delayOf(timers[i].kind)

removeTimer(i) == SubSeq(timers, 1, i - 1) \o SubSeq(timers, i + 1, Len(timers))

(***************************************************************************)
(* User events                                                             *)
(***************************************************************************)
\* onDiceRolled told apart by doubles in the preparation phase too
placementStateOnRollPrepDoubles(state, d1, d2) ==
  IF isBonusStage(state) THEN state
  ELSE IF d1 = d2
    THEN (IF isPreparationPhase(state) THEN PREP_DOUBLES_FIRST ELSE DOUBLES_FIRST)
  ELSE (IF isPreparationPhase(state) THEN PREP_FIRST ELSE FIRST)

\* the placement state AppComponent.onDiceRolled leaves
placementStateOnRoll(state, d1, d2) ==
  IF isBonusStage(state) THEN state
  ELSE IF isPreparationPhase(state) THEN PREP_FIRST
  ELSE IF d1 = d2 THEN DOUBLES_FIRST
  ELSE FIRST

\* DiceComponent.rollDice emitting into AppComponent.onDiceRolled
rollDice ==
  /\ ~diceRollingDisabled
  /\ rollCount < MaxRolls
  /\ rollCount' = rollCount + 1
  /\ turnStartCells' = {c \in Cells : board[c] # Null}
  /\ \E d1 \in Faces, d2 \in Faces :
       LET wasComplete == placementState = COMPLETE
           isPreparation == isPreparationPhase(placementState)
           isBonus == isBonusStage(placementState)
           newState == placementStateOnRoll(placementState, d1, d2)
       IN  /\ currentTurnPlacements' = IF wasComplete THEN {} ELSE currentTurnPlacements
           /\ firstTurnPlaced' = IF wasComplete THEN FALSE ELSE firstTurnPlaced
           /\ secondTurnPlaced' = IF wasComplete THEN FALSE ELSE secondTurnPlaced
           /\ currentRolls' = <<d1, d2>>
           /\ selectedBuilding' = IF ~isBonus /\ isPreparation THEN Null ELSE selectedBuilding
           /\ placementState' = newState
           /\ selectedStep' = syncSelectedStep(newState, "first")
  /\ UNCHANGED <<board, currentRound, gameComplete, inPreparationPhase, footerScores,
                 inBonusStage, usedBonusBuildings, bonusStageBuildings, timers,
                 completedTurnCells, scoredRounds, fixedVars>>

\* a buildingSelected that takes the SQUARE button like any other
buildingSelectedWithSquare ==
  /\ buildingSelectionEnabled
  /\ \E building \in HeaderButtons \ (disabledBuildings \ {SQUARE}) :
       /\ isPreparationPhase(placementState) \/ isBonusStage(placementState)
       /\ selectedBuilding' = building
  /\ UNCHANGED <<board, currentRolls, placementState, selectedStep, sessionVars, timers,
                 completedTurnCells, rollCount, turnStartCells, scoredRounds, fixedVars>>

\* header button into AppComponent.buildingSelected
buildingSelected ==
  /\ buildingSelectionEnabled
  /\ \E building \in HeaderButtons \ disabledBuildings :
       /\ building # SQUARE
       /\ isPreparationPhase(placementState) \/ isBonusStage(placementState)
       /\ selectedBuilding' = building
  /\ UNCHANGED <<board, currentRolls, placementState, selectedStep, sessionVars, timers,
                 completedTurnCells, rollCount, turnStartCells, scoredRounds, fixedVars>>

\* DiceComponent.selectStep emitting into AppComponent.onStepSelected
selectStep ==
  /\ ~stepSwitchingDisabled
  /\ \E step \in {"first", "second"} :
       /\ ~isStepDisabled(step)
       /\ selectedStep # step
       /\ currentRolls # NoRolls /\ ~isBonusStage(placementState)
       /\ LET newState ==
                IF isPreparationPhase(placementState)
                  THEN (IF step = "first" THEN PREP_FIRST ELSE PREP_SECOND)
                ELSE IF isDoublesRoll
                  THEN (IF step = "first" THEN DOUBLES_FIRST ELSE DOUBLES_SQUARE)
                ELSE (IF step = "first" THEN FIRST ELSE SECOND)
          IN  /\ placementState' = newState
              /\ selectedStep' = syncSelectedStep(newState, step)
  /\ UNCHANGED <<board, currentRolls, selectedBuilding, sessionVars, timers,
                 completedTurnCells, rollCount, turnStartCells, scoredRounds, fixedVars>>

\* DiceComponent.onResetTurns emitting into AppComponent.onResetTurns
onResetTurns ==
  /\ shouldShowReset
  /\ board' = [c \in Cells |-> IF c \in currentTurnPlacements THEN Null ELSE board[c]]
  /\ currentTurnPlacements' = {}
  /\ firstTurnPlaced' = FALSE
  /\ secondTurnPlaced' = FALSE
  /\ placementState' = IF isPreparationPhase(placementState) THEN PREP_FIRST ELSE FIRST
  /\ selectedStep' = syncSelectedStep(placementState', selectedStep)
  /\ completedTurnCells' = completedTurnCells \ currentTurnPlacements
  /\ UNCHANGED <<currentRolls, selectedBuilding, currentRound, gameComplete,
                 inPreparationPhase, footerScores, inBonusStage, usedBonusBuildings,
                 bonusStageBuildings, timers, rollCount, turnStartCells, scoredRounds, fixedVars>>

\* scoreboard button into AppComponent.onPlayAgain
onPlayAgain ==
  /\ gameComplete
  /\ board' = createEmptyBoard
  /\ currentRolls' = NoRolls
  /\ placementState' = PREP_FIRST
  /\ selectedBuilding' = Null
  /\ selectedStep' = syncSelectedStep(PREP_FIRST, selectedStep)
  /\ currentRound' = 0
  /\ gameComplete' = FALSE
  /\ inPreparationPhase' = TRUE
  /\ footerScores' = [i \in 1 .. maxRounds |-> 0]
  /\ inBonusStage' = FALSE
  /\ usedBonusBuildings' = {}
  /\ bonusStageBuildings' = << >>
  /\ currentTurnPlacements' = {}
  /\ firstTurnPlaced' = FALSE
  /\ secondTurnPlaced' = FALSE
  /\ completedTurnCells' = {}
  /\ turnStartCells' = {}
  /\ scoredRounds' = {}
  /\ UNCHANGED <<timers, rollCount, fixedVars>>

(***************************************************************************)
(* GameBoardComponent.handleCellClick                                      *)
(***************************************************************************)
\* the turn flag of the step that has just been placed
markFirstTurnPlaced(state) ==
  IF shouldTrackTurnPlacement(state) /\ isFirstPlacement(state) THEN TRUE ELSE firstTurnPlaced

markSecondTurnPlaced(state) ==
  IF shouldTrackTurnPlacement(state) /\ isSecondPlacement(state) THEN TRUE ELSE secondTurnPlaced

\* a score written to the nearest entry when the index is out of range
setRoundScoreClamped(scores, roundIndex, score) ==
  LET i == IF roundIndex < 0 THEN 1
           ELSE IF roundIndex >= Len(scores) THEN Len(scores)
           ELSE roundIndex + 1
  IN  [scores EXCEPT ![i] = score]

\* GameStateService.setRoundScore: the footerScores it leaves
setRoundScore(scores, roundIndex, score) ==
  IF roundIndex >= 0 /\ roundIndex < Len(scores)
    THEN [j \in 1 .. Len(scores) |-> IF j = roundIndex + 1 THEN score ELSE scores[j]]
    ELSE scores

\* an advance that counts on past the last round
advanceRoundPastLast(round, complete, limit) ==
  [currentRound |-> round + 1,
   gameComplete |-> IF round + 1 <= limit THEN complete ELSE TRUE]

\* GameStateService.advanceRound: the round counter and the completion flag
\* it leaves
advanceRound(round, complete, limit) ==
  LET nextRound == round + 1
  IN  IF nextRound <= limit
        THEN [currentRound |-> nextRound, gameComplete |-> complete]
        ELSE [currentRound |-> round, gameComplete |-> TRUE]

\* session after completeBonusStage(placedBuilding), and its timeout
completeBonusStage(placedBuilding) ==
  /\ usedBonusBuildings' = usedBonusBuildings \cup {placedBuilding}
  /\ bonusStageBuildings' =
       [r \in DOMAIN bonusStageBuildings \cup {currentRound} |->
          IF r = currentRound THEN placedBuilding ELSE bonusStageBuildings[r]]
  /\ inBonusStage' = FALSE
  /\ currentRound' = IF currentRound + 1 <= maxRounds THEN currentRound + 1 ELSE currentRound
  /\ gameComplete' = IF currentRound + 1 <= maxRounds THEN gameComplete ELSE TRUE
  /\ timers' = Append(timers, plainTimer("bonusComplete"))

\* bonus branch of handleCellClick
placeBonusBuilding(cell) ==
  /\ board' = [board EXCEPT ![cell] = selectedBuildingForPlacement]
  /\ currentTurnPlacements' = currentTurnPlacements \cup {cell}
  /\ completeBonusStage(selectedBuildingForPlacement)
  /\ UNCHANGED <<appVars, inPreparationPhase, footerScores, firstTurnPlaced,
                 secondTurnPlaced, completedTurnCells>>

\* a completeRound that starts the bonus stage at once and scores afterwards
completeRoundBonusFirst(newBoard) ==
  /\ IF inBonusStage
       THEN /\ UNCHANGED <<inPreparationPhase, currentRound, inBonusStage>>
            /\ timers' = Append(timers, plainTimer("clearDice"))
     ELSE IF inPreparationPhase
       THEN /\ inPreparationPhase' = FALSE
            /\ currentRound' = 1
            /\ UNCHANGED inBonusStage
            /\ timers' = Append(timers, plainTimer("clearDice"))
     ELSE /\ UNCHANGED <<inPreparationPhase, currentRound>>
          /\ inBonusStage' = (currentRound \in bonusStageRounds)
          /\ timers' = Append(Append(timers,
                                newTimer("score", currentRolls[1] + currentRolls[2],
                                         newBoard, currentRound, FALSE)),
                              plainTimer("clearDice"))

\* a completeRound that scores the preparation turn like a round
completeRoundScoringPreparation(newBoard) ==
  /\ UNCHANGED inBonusStage
  /\ IF inBonusStage
       THEN /\ UNCHANGED <<inPreparationPhase, currentRound>>
            /\ timers' = Append(timers, plainTimer("clearDice"))
     ELSE /\ inPreparationPhase' = FALSE
          /\ currentRound' = IF inPreparationPhase THEN 1 ELSE currentRound
          /\ timers' = Append(Append(timers,
                                newTimer("score", currentRolls[1] + currentRolls[2],
                                         newBoard, currentRound, FALSE)),
                              plainTimer("clearDice"))

\* completeRound() called at the closing placement, followed by the COMPLETE
\* emission handled by AppComponent.onPlacementStateChange
completeRound(newBoard) ==
  /\ UNCHANGED inBonusStage
  /\ IF inBonusStage
       THEN /\ UNCHANGED <<inPreparationPhase, currentRound>>
            /\ timers' = Append(timers, plainTimer("clearDice"))
     ELSE IF inPreparationPhase
       THEN /\ inPreparationPhase' = FALSE
            /\ currentRound' = 1
            /\ timers' = Append(timers, plainTimer("clearDice"))
     ELSE /\ UNCHANGED <<inPreparationPhase, currentRound>>
          /\ timers' = Append(Append(timers,
                                newTimer("score", currentRolls[1] + currentRolls[2],
                                         newBoard, currentRound, FALSE)),
                              plainTimer("clearDice"))

\* regular branch of handleCellClick
placeBuilding(cell) ==
  LET building == getBuildingToPlace(placementState, currentRolls, selectedBuildingForPlacement)
      first == markFirstTurnPlaced(placementState)
      second == markSecondTurnPlaced(placementState)
      nextState == getNextPlacementState(placementState, first, second)
      newBoard == [board EXCEPT ![cell] = building]
  IN  /\ board' = newBoard
      /\ currentTurnPlacements' = currentTurnPlacements \cup {cell}
      /\ firstTurnPlaced' = first
      /\ secondTurnPlaced' = second
      /\ placementState' = nextState
      /\ selectedStep' = syncSelectedStep(nextState, selectedStep)
      /\ selectedBuilding' =
           IF nextState \in {PREP_SECOND, PREP_DOUBLES_SECOND} THEN Null ELSE selectedBuilding
      /\ IF nextState = COMPLETE
           THEN /\ completeRound(newBoard)
                /\ completedTurnCells' = completedTurnCells \cup currentTurnPlacements \cup {cell}
           ELSE UNCHANGED <<inPreparationPhase, currentRound, inBonusStage, timers,
                            completedTurnCells>>
      /\ UNCHANGED <<currentRolls, gameComplete, footerScores, usedBonusBuildings,
                     bonusStageBuildings>>

handleCellClick(row, col) ==
  /\ IF ~canPlaceInCell(row, col, placementState, currentRolls, board,
                        selectedBuildingForPlacement, currentTurnPlacements,
                        getAvailableBonusBuildings)
       THEN UNCHANGED <<board, appVars, sessionVars, timers, completedTurnCells>>
     ELSE IF placementState = BONUS THEN placeBonusBuilding(<<row, col>>)
     ELSE placeBuilding(<<row, col>>)
  /\ UNCHANGED <<rollCount, turnStartCells, scoredRounds, fixedVars>>

cellClick == \E c \in ClickCells : handleCellClick(c[1], c[2])

(***************************************************************************)
(* Timeout continuations                                                   *)
(***************************************************************************)
\* AppComponent.onPlacementStateChange(COMPLETE): currentRolls.set(null)
clearDiceTimeoutAt(i) ==
    /\ i \in 1 .. Len(timers)
    /\ timers[i].kind = "clearDice" /\ canFire(i)
    /\ currentRolls' = NoRolls
    /\ timers' = removeTimer(i)
    /\ UNCHANGED <<board, placementState, selectedBuilding, selectedStep, sessionVars,
                   completedTurnCells, rollCount, turnStartCells, scoredRounds, fixedVars>>

clearDiceTimeout == \E i \in 1 .. Len(timers) : clearDiceTimeoutAt(i)

\* completeRound, first timeout: score the street and record it
scoreTimeoutAt(i) ==
    /\ i \in 1 .. Len(timers)
    /\ timers[i].kind = "score" /\ canFire(i)
    /\ LET score == boardStreetScore(timers[i].diceSum, board)
           roundIndex == currentRound - 1
       IN  footerScores' =
             IF roundIndex >= 0 /\ roundIndex < maxRounds
               THEN [footerScores EXCEPT ![roundIndex + 1] = score]
               ELSE footerScores
    /\ scoredRounds' =
         IF currentRound - 1 >= 0 /\ currentRound - 1 < maxRounds
           THEN scoredRounds \cup {currentRound} ELSE scoredRounds
    /\ timers' = Append(removeTimer(i),
                        newTimer("advance", timers[i].diceSum, timers[i].closeBoard,
                                 timers[i].closeRound, TRUE))
    /\ UNCHANGED <<board, appVars, currentRound, gameComplete, inPreparationPhase,
                   inBonusStage, usedBonusBuildings, bonusStageBuildings,
                   currentTurnPlacements, firstTurnPlaced, secondTurnPlaced,
                   completedTurnCells, rollCount, turnStartCells, fixedVars>>

scoreTimeout == \E i \in 1 .. Len(timers) : scoreTimeoutAt(i)

\* completeRound, second timeout: enter the bonus stage or advance the round
advanceTimeoutAt(i) ==
    /\ i \in 1 .. Len(timers)
    /\ timers[i].kind = "advance" /\ canFire(i)
    /\ timers' = removeTimer(i)
    /\ IF currentRound \in bonusStageRounds
         THEN /\ inBonusStage' = TRUE
              /\ placementState' = BONUS
              /\ selectedBuilding' = Null
              /\ selectedStep' = syncSelectedStep(BONUS, selectedStep)
              /\ UNCHANGED <<currentRound, gameComplete>>
         ELSE /\ currentRound' =
                   IF currentRound + 1 <= maxRounds THEN currentRound + 1 ELSE currentRound
              /\ gameComplete' = IF currentRound + 1 <= maxRounds THEN gameComplete ELSE TRUE
              /\ UNCHANGED <<inBonusStage, placementState, selectedBuilding, selectedStep>>
    /\ UNCHANGED <<board, currentRolls, inPreparationPhase, footerScores,
                   usedBonusBuildings, bonusStageBuildings, currentTurnPlacements,
                   firstTurnPlaced, secondTurnPlaced, completedTurnCells, rollCount, turnStartCells, scoredRounds, fixedVars>>

advanceTimeout == \E i \in 1 .. Len(timers) : advanceTimeoutAt(i)

\* completeBonusStage's timeout: emit COMPLETE into onPlacementStateChange
bonusCompleteTimeoutAt(i) ==
    /\ i \in 1 .. Len(timers)
    /\ timers[i].kind = "bonusComplete" /\ canFire(i)
    /\ placementState' = COMPLETE
    /\ selectedStep' = syncSelectedStep(COMPLETE, selectedStep)
    /\ timers' = Append(removeTimer(i), plainTimer("clearDice"))
    /\ UNCHANGED <<board, currentRolls, selectedBuilding, sessionVars,
                   completedTurnCells, rollCount, turnStartCells, scoredRounds, fixedVars>>

bonusCompleteTimeout == \E i \in 1 .. Len(timers) : bonusCompleteTimeoutAt(i)

(***************************************************************************)
(* The game                                                                *)
(***************************************************************************)
Init ==
  /\ board = createEmptyBoard
  /\ GameIdle
  /\ bonusPeriod = BonusEvery
  /\ ScoreIdle
  /\ RulesIdle

Next ==
  \/ rollDice
  \/ buildingSelected
  \/ selectStep
  \/ onResetTurns
  \/ onPlayAgain
  \/ cellClick
  \/ clearDiceTimeout
  \/ scoreTimeout
  \/ advanceTimeout
  \/ bonusCompleteTimeout

Spec == Init /\ [][Next]_vars

(***************************************************************************)
(* The game with every round a bonus round, from the end of the            *)
(* preparation turn                                                        *)
(***************************************************************************)
\* the preparation turn of doubles (1, 1) is over: LAKE placed on (0, 0), then
\* HOUSE on the same cell, the dice cleared by the timeout
PreparationDone ==
  /\ board = [createEmptyBoard EXCEPT ![<<0, 0>>] = HOUSE]
  /\ currentRolls = NoRolls
  /\ placementState = COMPLETE
  /\ selectedBuilding = HOUSE
  /\ selectedStep = "second"
  /\ currentRound = 1
  /\ gameComplete = FALSE
  /\ inPreparationPhase = FALSE
  /\ footerScores = [i \in 1 .. maxRounds |-> 0]
  /\ inBonusStage = FALSE
  /\ usedBonusBuildings = {}
  /\ bonusStageBuildings = << >>
  /\ currentTurnPlacements = {<<0, 0>>}
  /\ firstTurnPlaced = TRUE
  /\ secondTurnPlaced = TRUE
  /\ timers = << >>
  /\ completedTurnCells = {<<0, 0>>}
  /\ rollCount = 1
  /\ turnStartCells = {}
  /\ scoredRounds = {}
  /\ selectedScoringRow = NullRow

InitBonusRounds ==
  /\ PreparationDone
  /\ bonusPeriod = 1
  /\ ScoreIdle
  /\ RulesIdle

SpecBonusRounds == InitBonusRounds /\ [][Next]_vars

\* the game after the preparation phase with every round a bonus round or
\* with no bonus round at all
InitLastRound ==
  /\ PreparationDone
  /\ bonusPeriod \in {1, maxRounds + 1}
  /\ ScoreIdle
  /\ RulesIdle

SpecLastRound == InitLastRound /\ [][Next]_vars

(***************************************************************************)
(* Placement rules applied to bounded inputs                               *)
(***************************************************************************)
\* a column of a drawn board has at most MaxEmpty empty cells, or is untouched
MaxEmpty == 2

diceValues == 1 .. 6
\* numbers passed to getBuildingFromDice: the faces and numbers beside them
MaxDiceArgument == 8
diceArguments == -2 .. MaxDiceArgument
\* scores passed to setRoundScore
MaxScoreArgument == 2
AllRolls == {<<d1, d2>> : d1 \in diceValues, d2 \in diceValues}
\* rolls of the placement checks: none, or dice naming the first columns
LowRolls == {NoRolls} \cup {<<d1, d2>> : d1 \in 1 .. MaxFace + 1, d2 \in 1 .. MaxFace + 1}

\* boards: empty, or three neighbouring columns at the left or the right edge
\* filled from row 0 up to a height that leaves at most MaxEmpty cells
RuleBoards ==
  {createEmptyBoard} \cup
  {[c \in Cells |->
      IF c[2] \in w .. w + 2 /\ c[1] < hs[c[2] - w + 1] THEN HOUSE ELSE Null] :
     w \in {0, Cols - 3}, hs \in [1 .. 3 -> (Rows - MaxEmpty) .. Rows]}

\* cells placed earlier in the turn: none, the top-left cell, or the last
\* cell of the second column
RuleTurnPlacements == {{}, {<<0, 0>>}, {<<Rows - 1, 1>>}}

RulesInit ==
  /\ board \in RuleBoards
  /\ GameIdle
  /\ bonusPeriod = BonusEvery
  /\ ScoreIdle
  /\ RulesIdle

ruleInput(fn, state, rolls, selected, turnPlacements, available) ==
  [fn |-> fn, state |-> state, rolls |-> rolls, selected |-> selected,
   turnPlacements |-> turnPlacements, available |-> available]

\* one call of getAllowedColumns on the board
AllowedColumnsCall ==
  /\ rlPc = "idle"
  /\ \E state \in PlacementState, rolls \in AllRolls \cup {NoRolls} :
       /\ rlInput' = ruleInput("getAllowedColumns", state, rolls, Null, {}, {})
       /\ rlOut' = getAllowedColumns(state, rolls, board, Cols)
  /\ rlPc' = "done"
  /\ UNCHANGED <<board, appVars, sessionVars, timers, histVars, selectedScoringRow, bonusPeriod, scoreVars>>

\* one call of getBuildingToPlace, which does not read the board
BuildingToPlaceCall ==
  /\ rlPc = "idle"
  /\ board = createEmptyBoard
  /\ \E state \in PlacementState, rolls \in AllRolls \cup {NoRolls}, selected \in Cell :
       /\ rlInput' = ruleInput("getBuildingToPlace", state, rolls, selected, {}, {})
       /\ rlOut' = getBuildingToPlace(state, rolls, selected)
  /\ rlPc' = "done"
  /\ UNCHANGED <<board, appVars, sessionVars, timers, histVars, selectedScoringRow, bonusPeriod, scoreVars>>

\* canPlaceInCell called for every cell of the board: the cells it accepts
CanPlaceInCellCall ==
  /\ rlPc = "idle"
  /\ \E state \in PlacementState, rolls \in LowRolls, selected \in {Null, HOUSE, LAKE},
        turnPlacements \in RuleTurnPlacements,
        available \in {{HOUSE, LAKE, FOREST}, {LAKE, FOREST}} :
       /\ rlInput' = ruleInput("canPlaceInCell", state, rolls, selected, turnPlacements, available)
       /\ rlOut' = {c \in Cells :
                      canPlaceInCell(c[1], c[2], state, rolls, board, selected,
                                     turnPlacements, available)}
  /\ rlPc' = "done"
  /\ UNCHANGED <<board, appVars, sessionVars, timers, histVars, selectedScoringRow, bonusPeriod, scoreVars>>

\* one call of getBuildingFromDice, which does not read the board
BuildingFromDiceCall ==
  /\ rlPc = "idle"
  /\ board = createEmptyBoard
  /\ \E diceValue \in diceArguments :
       /\ rlInput' = [fn |-> "getBuildingFromDice", diceValue |-> diceValue]
       /\ rlOut' = getBuildingFromDice(diceValue)
  /\ rlPc' = "done"
  /\ UNCHANGED <<board, appVars, sessionVars, timers, histVars, selectedScoringRow, bonusPeriod, scoreVars>>

\* the operations of GameStateService called one after another
SessionCalls == {"setRoundScore", "setSelectedScoringRow", "resetGame"}

SessionCallEnabled == rlPc = "idle" \/ (rlPc = "done" /\ rlInput.fn \in SessionCalls)

\* GameStateService.initializeGame(config)
initializeGame ==
  /\ currentRound' = 0
  /\ gameComplete' = FALSE
  /\ inPreparationPhase' = TRUE
  /\ footerScores' = [i \in 1 .. maxRounds |-> 0]
  /\ inBonusStage' = FALSE
  /\ usedBonusBuildings' = {}
  /\ bonusStageBuildings' = << >>
  /\ currentTurnPlacements' = {}
  /\ firstTurnPlaced' = FALSE
  /\ secondTurnPlaced' = FALSE
  /\ UNCHANGED selectedScoringRow

\* GameStateService.resetGame(config)
resetGame == initializeGame

\* one call of setSelectedScoringRow on the session
SetSelectedScoringRowCall ==
  /\ SessionCallEnabled
  /\ board = createEmptyBoard
  /\ \E row \in RowChoices :
       /\ rlInput' = [fn |-> "setSelectedScoringRow", row |-> row]
       /\ selectedScoringRow' = row
  /\ rlOut' = << >>
  /\ rlPc' = "done"
  /\ UNCHANGED <<board, appVars, sessionVars, timers, histVars, bonusPeriod, scoreVars>>

\* one call of resetGame on the session
ResetGameCall ==
  /\ SessionCallEnabled
  /\ board = createEmptyBoard
  /\ rlInput' = [fn |-> "resetGame"]
  /\ resetGame
  /\ rlOut' = << >>
  /\ rlPc' = "done"
  /\ UNCHANGED <<board, appVars, timers, histVars, bonusPeriod, scoreVars>>

\* calls of setRoundScore on the session, one after another
SetRoundScoreCall ==
  /\ SessionCallEnabled
  /\ board = createEmptyBoard
  /\ \E roundIndex \in -1 .. maxRounds + 1, score \in 0 .. MaxScoreArgument :
       /\ rlInput' = [fn |-> "setRoundScore", roundIndex |-> roundIndex, score |-> score]
       /\ footerScores' = setRoundScore(footerScores, roundIndex, score)
  /\ rlOut' = << >>
  /\ rlPc' = "done"
  /\ UNCHANGED <<board, appVars, currentRound, gameComplete, inPreparationPhase,
                 inBonusStage, usedBonusBuildings, bonusStageBuildings,
                 currentTurnPlacements, firstTurnPlaced, secondTurnPlaced,
                 timers, histVars, selectedScoringRow, bonusPeriod, scoreVars>>

RulesNext ==
  \/ BuildingFromDiceCall
  \/ SetRoundScoreCall
  \/ SetSelectedScoringRowCall
  \/ ResetGameCall
  \/ AllowedColumnsCall
  \/ BuildingToPlaceCall
  \/ CanPlaceInCellCall

SpecRules == RulesInit /\ [][RulesNext]_vars

(***************************************************************************)
(* Plaza bonus applied to bounded boards                                   *)
(***************************************************************************)
\* a drawn board holds at most MaxPlazaBuildings buildings, all of them in the
\* top-left block of three rows and three columns
MaxPlazaBuildings == 6
PlazaCells == (0 .. 2) \X (0 .. 2)

\* a SQUARE in a corner with any content in the corner's two neighbours
CornerCells == {<<0, 0>>, <<0, Cols - 1>>, <<Rows - 1, 0>>, <<Rows - 1, Cols - 1>>}
CornerPlazaBoards ==
  {[c \in Cells |->
      IF c = k THEN SQUARE
      ELSE IF c[1] = k[1] /\ (c[2] = k[2] + 1 \/ k[2] = c[2] + 1) THEN x
      ELSE IF c[2] = k[2] /\ (c[1] = k[1] + 1 \/ k[1] = c[1] + 1) THEN y
      ELSE Null] :
     k \in CornerCells, x \in Cell, y \in Cell}

\* SQUARE at (2,2), HOUSE at (1,2), FOREST at (2,1), LAKE at (3,2) and any
\* content at (2,3)
ExamplePlazaBoards ==
  {[c \in Cells |->
      CASE c = <<2, 2>> -> SQUARE
        [] c = <<1, 2>> -> HOUSE
        [] c = <<2, 1>> -> FOREST
        [] c = <<3, 2>> -> LAKE
        [] c = <<2, 3>> -> x
        [] OTHER -> Null] : x \in Cell}

PlazaInit ==
  /\ \/ \E S \in SUBSET PlazaCells :
          /\ Cardinality(S) <= MaxPlazaBuildings
          /\ \E f \in [S -> Buildings] :
               board = [c \in Cells |-> IF c \in S THEN f[c] ELSE Null]
     \/ board \in CornerPlazaBoards
     \/ board \in ExamplePlazaBoards
  /\ GameIdle
  /\ bonusPeriod = BonusEvery
  /\ ScoreIdle
  /\ RulesIdle

\* one call of calculatePlazaBonus on the board
PlazaBonusCall ==
  /\ rlPc = "idle"
  /\ rlInput' = [fn |-> "calculatePlazaBonus"]
  /\ rlOut' = calculatePlazaBonus(board)
  /\ rlPc' = "done"
  /\ UNCHANGED <<board, appVars, sessionVars, timers, histVars, selectedScoringRow, bonusPeriod, scoreVars>>

\* one call of getPlazaBonusCells on the board
PlazaBonusCellsCall ==
  /\ rlPc = "idle"
  /\ rlInput' = [fn |-> "getPlazaBonusCells"]
  /\ rlOut' = getPlazaBonusCells(board)
  /\ rlPc' = "done"
  /\ UNCHANGED <<board, appVars, sessionVars, timers, histVars, selectedScoringRow, bonusPeriod, scoreVars>>

PlazaNext ==
  \/ PlazaBonusCall
  \/ PlazaBonusCellsCall

SpecPlaza == PlazaInit /\ [][PlazaNext]_vars

(***************************************************************************)
(* Reference notions for the scoring claims                                *)
(***************************************************************************)
Adjacent(a, b) ==
  \/ a[1] = b[1] /\ (a[2] = b[2] + 1 \/ b[2] = a[2] + 1)
  \/ a[2] = b[2] /\ (a[1] = b[1] + 1 \/ b[1] = a[1] + 1)

\* cells joined to a cell of S by an orthogonal path of cells of the same type
RECURSIVE SameTypeReach(_, _)
SameTypeReach(b, S) ==
  LET T == S \cup {n \in Cells : \E m \in S : Adjacent(m, n) /\ b[n] = b[m]}
  IN  IF T = S THEN S ELSE SameTypeReach(b, T)

StreetBuildingCells(b) == {c \in Cells : b[c] \in {HOUSE, FOREST, LAKE}}

MaximalGroups(b) == {SameTypeReach(b, {c}) : c \in StreetBuildingCells(b)}

RECURSIVE PointsOfCells(_)
PointsOfCells(S) ==
  IF S = {} THEN 0
  ELSE LET c == CHOOSE x \in S : TRUE
       IN  getCellPoints(c[1], c[2]) + PointsOfCells(S \ {c})

RECURSIVE PointsOfGroups(_)
PointsOfGroups(GS) ==
  IF GS = {} THEN 0
  ELSE LET G == CHOOSE x \in GS : TRUE
       IN  PointsOfCells(G) + PointsOfGroups(GS \ {G})

TouchingGroups(b, targetRow) ==
  {G \in MaximalGroups(b) : \E c \in G : c[1] = targetRow}

ExampleStreetBoard ==
  [c \in Cells |-> IF c \in {<<2, 0>>, <<2, 1>>} THEN HOUSE ELSE Null]

SeqToSet(q) == {q[i] : i \in 1 .. Len(q)}

scTargetRow == getTargetRowFromDiceSum(scInput.diceSum, scInput.selectedRow)

(***************************************************************************)
(* C1: calculateStreetScore returns the sum, over the maximal 4-connected  *)
(* same-type groups of HOUSE/FOREST/LAKE cells with a cell on the target   *)
(* row, of the point values of all cells of the group; other groups add 0; *)
(* HOUSE at (2,0),(2,1) on the default board with dice sum 7 scores 2.     *)
(***************************************************************************)
C1_StreetScoreIsSumOfTouchingGroups ==
  scPc = "done" =>
    /\ scScore = (IF scTargetRow = -1 THEN 0
                  ELSE PointsOfGroups(TouchingGroups(board, scTargetRow)))
    /\ (board = ExampleStreetBoard /\ scInput.diceSum = 7 => scScore = 2)

\* a scored group with a paying cell off the target row, beside a paying
\* group that does not touch the row
C1_Witness ==
  /\ scPc = "done"
  /\ scTargetRow # -1
  /\ \E G \in TouchingGroups(board, scTargetRow) :
       \E c \in G : c[1] # scTargetRow /\ getCellPoints(c[1], c[2]) > 0
  /\ \E G \in MaximalGroups(board) \ TouchingGroups(board, scTargetRow) :
       PointsOfCells(G) > 0
  /\ scScore > 0

(***************************************************************************)
(* C2: the groups discovered by the full-board traversal partition the     *)
(* HOUSE/FOREST/LAKE cells: each such cell is in exactly one group, the    *)
(* cells of a group are joined by orthogonal same-type paths, each group   *)
(* is maximal, and SQUARE and empty cells are in no group.                 *)
(***************************************************************************)
C2_GroupsPartitionBuildingCells ==
  scPc = "done" =>
    /\ \A c \in StreetBuildingCells(board) :
         Cardinality({i \in 1 .. Len(scGroups) : c \in SeqToSet(scGroups[i])}) = 1
    /\ \A i \in 1 .. Len(scGroups) :
         LET G == SeqToSet(scGroups[i])
         IN  /\ G # {}
             /\ Cardinality(G) = Len(scGroups[i])
             /\ G \subseteq StreetBuildingCells(board)
             /\ \A c \in G : G \subseteq SameTypeReach(board, {c})
             /\ \A m \in G, n \in Cells :
                  Adjacent(m, n) /\ board[n] = board[m] => n \in G

\* two groups of one type kept apart by a SQUARE lying between them
C2_Witness ==
  /\ scPc = "done"
  /\ \E i, j \in 1 .. Len(scGroups) :
       /\ i # j
       /\ board[scGroups[i][1]] = board[scGroups[j][1]]
       /\ \E s \in Cells :
            /\ board[s] = SQUARE
            /\ \E m \in SeqToSet(scGroups[i]) : Adjacent(m, s)
            /\ \E n \in SeqToSet(scGroups[j]) : Adjacent(n, s)

(***************************************************************************)
(* Reference notions for the claims about the game                         *)
(***************************************************************************)
\* this step is handleCellClick on cell c and the click was accepted
PlacementAccepted(c) ==
  /\ canPlaceInCell(c[1], c[2], placementState, currentRolls, board,
                    selectedBuildingForPlacement, currentTurnPlacements,
                    getAvailableBonusBuildings)
  /\ handleCellClick(c[1], c[2])

RegularTurnStates == {FIRST, SECOND, DOUBLES_FIRST, DOUBLES_SQUARE}

otherStepState(state) ==
  CASE state = FIRST -> SECOND
    [] state = SECOND -> FIRST
    [] state = DOUBLES_FIRST -> DOUBLES_SQUARE
    [] state = DOUBLES_SQUARE -> DOUBLES_FIRST

C4_PlacementsSpareCompletedTurns ==
  [][\A c \in ClickCells :
       PlacementAccepted(c) =>
         /\ board[c] = Null \/ c \in currentTurnPlacements
         /\ \A d \in completedTurnCells : board'[d] = board[d]]_vars

(* C4, first half alone: the written cell is empty or in                    *)
(* currentTurnPlacements.                                                   *)
C4_WrittenCellEmptyOrSameTurn ==
  [][\A c \in ClickCells :
       PlacementAccepted(c) => (board[c] = Null \/ c \in currentTurnPlacements)]_vars

\* the reasons the claim lists for a click on c to fail the placement check
FailsPlacementCheck(c) ==
  \/ placementState # BONUS /\ currentRolls = NoRolls
  \/ placementState = COMPLETE
  \/ board[c] # Null /\ c \notin currentTurnPlacements
  \/ (isPreparationPhase(placementState) \/ placementState = BONUS) /\ selectedBuilding = Null
  \/ placementState = BONUS /\ selectedBuilding \in usedBonusBuildings
  \/ /\ placementState # BONUS
     /\ ~getAllowedColumns(placementState, currentRolls, board, Cols).any
     /\ c[2] \notin getAllowedColumns(placementState, currentRolls, board, Cols).cols

CompletionPending == \E i \in 1 .. Len(timers) : timers[i].kind \in {"score", "advance"}

\* this step is an event of the user that the program accepts
UserEvent ==
  \/ rollDice
  \/ buildingSelected
  \/ selectStep
  \/ onResetTurns
  \/ onPlayAgain
  \/ \E c \in ClickCells : PlacementAccepted(c)

(* C6: round completion is atomic: from the closing placement of a round   *)
(* until its score is recorded and the round advanced or the bonus stage    *)
(* entered, no user event is interleaved, and the recorded score is the     *)
(* street score of the board as it was at the closing placement, recorded   *)
(* for the round that was closed.                                           *)
C6_RoundCompletionAtomic ==
  [][/\ CompletionPending => ~UserEvent
     /\ \A i \in 1 .. Len(timers) :
          scoreTimeoutAt(i) =>
            /\ currentRound = timers[i].closeRound
            /\ footerScores'[timers[i].closeRound] =
                 boardStreetScore(timers[i].diceSum, timers[i].closeBoard)]_vars

C8_BonusEnteredIffBonusRound ==
  [][/\ \A i \in 1 .. Len(timers) :
          advanceTimeoutAt(i) =>
            LET r == timers[i].closeRound
            IN  IF r \in bonusStageRounds
                  THEN placementState' = BONUS /\ inBonusStage' /\ currentRound' = r
                  ELSE /\ inBonusStage' = inBonusStage
                       /\ placementState' = placementState
                       /\ IF r = maxRounds THEN gameComplete' ELSE currentRound' = r + 1
     /\ (currentRound \in bonusStageRounds /\ currentRound' # currentRound) =>
          \/ onPlayAgain
          \/ \E c \in ClickCells : placementState = BONUS /\ PlacementAccepted(c)]_vars

(* C9 as stated: the score of a bonus round r is not written before the     *)
(* bonus stage for r has been entered.                                       *)
C9_BonusStartsBeforeScoreRecorded ==
  [][\A i \in 1 .. Len(timers) :
       (scoreTimeoutAt(i) /\ currentRound \in bonusStageRounds) =>
         (inBonusStage \/ currentRound \in DOMAIN bonusStageBuildings)]_vars

(* C9 amended: the bonus stage is started only by the continuation of a     *)
(* completion whose scoring step has already run, so the score of the        *)
(* closing sequence is written first and the bonus stage entered afterwards. *)
C9_ScoreStepBeforeBonusStarts ==
  [][((inBonusStage' /\ ~inBonusStage) \/ (placementState' = BONUS /\ placementState # BONUS)) =>
       \E i \in 1 .. Len(timers) : advanceTimeoutAt(i) /\ timers[i].scoreRan]_vars

\* the score of a bonus round is on record and its bonus stage has begun
C9_Witness ==
  /\ inBonusStage
  /\ placementState = BONUS
  /\ currentRound \in bonusStageRounds
  /\ footerScores[currentRound] > 0
  /\ usedBonusBuildings = {}

(* C10: every accepted placement in state BONUS ends the bonus stage: the   *)
(* bonus flag is down, the building consumed, the round advanced or the game *)
(* flagged complete; no further placement is accepted in BONUS before the    *)
(* state has left it, and it leaves BONUS only for COMPLETE.                 *)
C10_BonusPlacementEndsBonusStage ==
  [][/\ \A c \in ClickCells :
          (placementState = BONUS /\ PlacementAccepted(c)) =>
            /\ inBonusStage /\ ~inBonusStage'
            /\ selectedBuilding \in usedBonusBuildings' \ usedBonusBuildings
            /\ currentRound' = currentRound + 1 \/ gameComplete'
            /\ \A i \in 1 .. Len(timers) : timers[i].kind # "bonusComplete"
     /\ (placementState = BONUS /\ placementState' # BONUS /\ ~inBonusStage) =>
          placementState' = COMPLETE]_vars

(* C11: usedBonusBuildings holds only HOUSE, LAKE and FOREST and only       *)
(* grows until the game is reset; an accepted bonus placement of b adds b,   *)
(* maps the current round to b and lowers the bonus flag, after which b is   *)
(* not among the available bonus buildings; b was not used before, in this   *)
(* or any other bonus stage of the playthrough.                              *)
C11_BonusBuildingsConsumedOnce ==
  [][/\ usedBonusBuildings \subseteq {HOUSE, LAKE, FOREST}
     /\ Cardinality(usedBonusBuildings) <= 3
     /\ onPlayAgain \/ usedBonusBuildings \subseteq usedBonusBuildings'
     /\ \A c \in ClickCells :
          (placementState = BONUS /\ PlacementAccepted(c)) =>
            /\ selectedBuilding \notin usedBonusBuildings
            /\ \A r \in DOMAIN bonusStageBuildings : bonusStageBuildings[r] # selectedBuilding
            /\ usedBonusBuildings' = usedBonusBuildings \cup {selectedBuilding}
            /\ bonusStageBuildings'[currentRound] = selectedBuilding
            /\ ~inBonusStage'
            /\ selectedBuilding \notin getAvailableBonusBuildings']_vars

\* two bonus stages of one playthrough have been completed with two buildings
C11_Witness ==
  /\ DOMAIN bonusStageBuildings = {1, 2}
  /\ bonusStageBuildings[1] # bonusStageBuildings[2]
  /\ usedBonusBuildings = {bonusStageBuildings[1], bonusStageBuildings[2]}
  /\ ~inBonusStage

C12_RollKeepsBonusState ==
  [][(rollDice /\ placementState = BONUS) => placementState' = BONUS]_vars

\* the preparation state of the other step
otherPrepState(state) ==
  CASE state = PREP_FIRST -> PREP_SECOND
    [] state = PREP_SECOND -> PREP_FIRST
    [] state = PREP_DOUBLES_FIRST -> PREP_DOUBLES_SECOND
    [] state = PREP_DOUBLES_SECOND -> PREP_DOUBLES_FIRST

Called(fn) == rlPc = "done" /\ rlInput.fn = fn

\* states whose placement is tied to a column of the roll
ColumnStates ==
  {PREP_FIRST, PREP_SECOND, PREP_DOUBLES_FIRST, PREP_DOUBLES_SECOND, FIRST, SECOND, DOUBLES_FIRST}

\* the column the code derives from the roll: die 0 of the pair, die 1 in the
\* second-step states
RollColumn(state, rolls) ==
  IF state \in {PREP_SECOND, SECOND} THEN rolls[2] - 1 ELSE rolls[1] - 1

EmptyCellsIn(b, col) == {row \in 0 .. Rows - 1 : b[<<row, col>>] = Null}
NoEmptyCell(b, col) == EmptyCellsIn(b, col) = {}

\* the call was for a state and roll whose column is full on the board
CalledOnFullColumn ==
  /\ Called("getAllowedColumns")
  /\ rlInput.state \in ColumnStates
  /\ rlInput.rolls # NoRolls
  /\ NoEmptyCell(board, RollColumn(rlInput.state, rlInput.rolls))

(* C14: when the target column is full and has two neighbouring columns,    *)
(* getAllowedColumns returns only the neighbour with strictly more empty     *)
(* cells, and both neighbours when they have equally many.                   *)
C14_FullColumnFallsBackToEmptierNeighbour ==
  CalledOnFullColumn =>
    LET t == RollColumn(rlInput.state, rlInput.rolls)
        l == Cardinality(EmptyCellsIn(board, t - 1))
        r == Cardinality(EmptyCellsIn(board, t + 1))
    IN  (t - 1 >= 0 /\ t + 1 < Cols) =>
          /\ ~rlOut.any
          /\ l > r => rlOut.cols = {t - 1}
          /\ r > l => rlOut.cols = {t + 1}
          /\ l = r => rlOut.cols = {t - 1, t + 1}

\* a full column between two neighbours with equally many empty cells, and
\* both neighbours returned
C14_Witness ==
  /\ CalledOnFullColumn
  /\ LET t == RollColumn(rlInput.state, rlInput.rolls)
     IN  /\ t - 1 >= 0 /\ t + 1 < Cols
         /\ Cardinality(EmptyCellsIn(board, t - 1)) = Cardinality(EmptyCellsIn(board, t + 1))
         /\ Cardinality(EmptyCellsIn(board, t - 1)) > 0
         /\ rlOut.cols = {t - 1, t + 1}

\* col is an edge column and the one column next to it is full
EdgeWithFullNeighbour(b, col) ==
  \/ col = 0 /\ NoEmptyCell(b, 1)
  \/ col = Cols - 1 /\ NoEmptyCell(b, Cols - 2)

\* the placement check was made for a state and roll whose column is full
PlacementCheckedOnFullColumn ==
  /\ Called("canPlaceInCell")
  /\ rlInput.state \in ColumnStates
  /\ rlInput.rolls # NoRolls
  /\ NoEmptyCell(board, RollColumn(rlInput.state, rlInput.rolls))

(* C15: when the target column is full and is an edge column whose only     *)
(* neighbouring column is full too, getAllowedColumns returns no column and  *)
(* canPlaceInCell accepts no cell.                                           *)
C15_FullEdgeColumnAllowsNoColumn ==
  /\ (CalledOnFullColumn /\ EdgeWithFullNeighbour(board, RollColumn(rlInput.state, rlInput.rolls)))
       => rlOut = OnlyColumns({})
  /\ (PlacementCheckedOnFullColumn
         /\ EdgeWithFullNeighbour(board, RollColumn(rlInput.state, rlInput.rolls)))
       => rlOut = {}

\* C15, the cells alone: canPlaceInCell accepts no cell in that case
C15_FullEdgeColumnAcceptsNoCell ==
  (PlacementCheckedOnFullColumn
     /\ EdgeWithFullNeighbour(board, RollColumn(rlInput.state, rlInput.rolls)))
    => rlOut = {}

\* the die at index i of the roll pair, indices counted from 0 as in the code
dieAt(rolls, i) == rolls[i + 1]

DoublesColumnStates == {PREP_DOUBLES_FIRST, PREP_DOUBLES_SECOND, DOUBLES_FIRST}

\* getAllowedColumns was called for a column state with a roll, in the doubles
\* states with equal dice
CalledForColumn ==
  /\ Called("getAllowedColumns")
  /\ rlInput.state \in ColumnStates
  /\ rlInput.rolls # NoRolls
  /\ rlInput.state \in DoublesColumnStates => rlInput.rolls[1] = rlInput.rolls[2]

(* C16 as stated: the target column is the value minus one of the die at    *)
(* index 1 in PREP_FIRST and FIRST, of the die at index 0 in PREP_SECOND and *)
(* SECOND, and of the doubles value in the doubles states; a target column   *)
(* with an empty cell is the one column allowed.                             *)
C16_FirstStepUsesDieOne ==
  CalledForColumn =>
    LET t == IF rlInput.state \in {PREP_FIRST, FIRST} THEN dieAt(rlInput.rolls, 1) - 1
             ELSE dieAt(rlInput.rolls, 0) - 1
    IN  ~NoEmptyCell(board, t) => rlOut = OnlyColumns({t})

(* C16 amended: the target column is the value minus one of the die at      *)
(* index 0 in PREP_FIRST and FIRST, of the die at index 1 in PREP_SECOND and *)
(* SECOND, and of the doubles value in the doubles states.                   *)
C16_FirstStepUsesDieZero ==
  CalledForColumn =>
    LET t == IF rlInput.state \in {PREP_SECOND, SECOND} THEN dieAt(rlInput.rolls, 1) - 1
             ELSE dieAt(rlInput.rolls, 0) - 1
    IN  ~NoEmptyCell(board, t) => rlOut = OnlyColumns({t})

\* a first step with the dice (1, 2) is tied to column 0, a second step to
\* column 1
C16_Witness ==
  /\ CalledForColumn
  /\ rlInput.rolls = <<1, 2>>
  /\ \/ rlInput.state = FIRST /\ rlOut = OnlyColumns({0})
     \/ rlInput.state = SECOND /\ rlOut = OnlyColumns({1})

(* C17: on every board whose target column has at least one empty cell      *)
(* getAllowedColumns returns the target column alone; in DOUBLES_SQUARE and  *)
(* BONUS it restricts no column, whatever the roll and the board.            *)
C17_ColumnWithSpaceIsTheOnlyOne ==
  Called("getAllowedColumns") =>
    /\ (rlInput.state \in ColumnStates /\ rlInput.rolls # NoRolls
          /\ ~NoEmptyCell(board, RollColumn(rlInput.state, rlInput.rolls)))
         => rlOut = OnlyColumns({RollColumn(rlInput.state, rlInput.rolls)})
    /\ rlInput.state \in {DOUBLES_SQUARE, BONUS} => rlOut = AnyColumn

\* the target column holds buildings and still has one empty cell
C17_Witness ==
  /\ Called("getAllowedColumns")
  /\ rlInput.state \in ColumnStates
  /\ rlInput.rolls # NoRolls
  /\ Cardinality(EmptyCellsIn(board, RollColumn(rlInput.state, rlInput.rolls))) = 1
  /\ rlOut = OnlyColumns({RollColumn(rlInput.state, rlInput.rolls)})

\* index in the roll pair of the die that gives the column of a step, and of
\* the other die
columnDie(state) == IF state \in {PREP_SECOND, SECOND} THEN 1 ELSE 0
otherDie(state) == 1 - columnDie(state)

\* what the claim says getBuildingToPlace returns, given that the dice states
\* have a roll
BuildingAsClaimed(state, rolls, selected) ==
  CASE state \in {FIRST, SECOND} -> getBuildingFromDice(dieAt(rolls, otherDie(state)))
    [] state = DOUBLES_FIRST -> getBuildingFromDice(dieAt(rolls, 0))
    [] state = DOUBLES_SQUARE -> SQUARE
    [] isPreparationPhase(state) \/ state = BONUS -> selected
    [] state = COMPLETE -> Null

\* the call had a roll where the claim speaks of dice, equal dice in DOUBLES_FIRST
DiceAsClaimed ==
  /\ rlInput.state \in {FIRST, SECOND, DOUBLES_FIRST} => rlInput.rolls # NoRolls
  /\ rlInput.state = DOUBLES_FIRST => rlInput.rolls[1] = rlInput.rolls[2]

(* C18 as stated: getBuildingToPlace returns, in FIRST and SECOND, the       *)
(* building of the die that does not give the column; in DOUBLES_FIRST that   *)
(* of the doubles value; in DOUBLES_SQUARE always SQUARE; in the preparation  *)
(* states and BONUS the selected building or none; in COMPLETE none.          *)
C18_BuildingFromOtherDieOrSelection ==
  (Called("getBuildingToPlace") /\ DiceAsClaimed) =>
    rlOut = BuildingAsClaimed(rlInput.state, rlInput.rolls, rlInput.selected)

(* C18 amended: with a roll of two dice present getBuildingToPlace returns   *)
(* what the claim lists; without a roll it returns none in every state but   *)
(* BONUS, where it still returns the selected building or none.              *)
C18_BuildingNeedsRollExceptBonus ==
  (Called("getBuildingToPlace") /\ DiceAsClaimed) =>
    rlOut = IF rlInput.rolls = NoRolls /\ rlInput.state # BONUS THEN Null
            ELSE BuildingAsClaimed(rlInput.state, rlInput.rolls, rlInput.selected)

\* the dice (1, 2): the first step places the building of the die 2, the
\* second step that of the die 1
C18_Witness ==
  /\ Called("getBuildingToPlace")
  /\ rlInput.rolls = <<1, 2>>
  /\ \/ rlInput.state = FIRST /\ rlOut = FOREST
     \/ rlInput.state = SECOND /\ rlOut = HOUSE

\* the cell is empty or was placed earlier in the same turn
EmptyOrSameTurn(c) == board[c] = Null \/ c \in rlInput.turnPlacements

(* C19: in every state other than BONUS canPlaceInCell accepts a cell        *)
(* exactly when a roll of two dice is present, the state is not COMPLETE, the *)
(* cell is empty or in currentTurnPlacements, a building is selected if the   *)
(* state is one of the four preparation states, and the column is among the   *)
(* allowed columns of the state, roll and board.                              *)
C19_RegularPlacementCheck ==
  (Called("canPlaceInCell") /\ rlInput.state # BONUS) =>
    rlOut =
      {c \in Cells :
         /\ Len(rlInput.rolls) = 2
         /\ rlInput.state # COMPLETE
         /\ EmptyOrSameTurn(c)
         /\ rlInput.state \in {PREP_FIRST, PREP_SECOND, PREP_DOUBLES_FIRST, PREP_DOUBLES_SECOND}
              => rlInput.selected # Null
         /\ LET allowed == getAllowedColumns(rlInput.state, rlInput.rolls, board, Cols)
            IN  allowed.any \/ c[2] \in allowed.cols}

\* a preparation placement with a selection: an occupied cell of this turn is
\* accepted, another occupied cell of the same column is not
C19_Witness ==
  /\ Called("canPlaceInCell")
  /\ rlInput.state = PREP_SECOND
  /\ rlInput.selected # Null
  /\ \E c \in rlOut, d \in Cells \ rlOut :
       board[c] # Null /\ board[d] # Null /\ c[2] = d[2]

(* C20: in BONUS canPlaceInCell accepts a cell exactly when a building is    *)
(* selected, it is among the available bonus buildings, and the cell is empty *)
(* or in currentTurnPlacements, with or without a roll and in any column.     *)
C20_BonusPlacementCheck ==
  (Called("canPlaceInCell") /\ rlInput.state = BONUS) =>
    rlOut =
      {c \in Cells :
         /\ rlInput.selected # Null
         /\ rlInput.selected \in rlInput.available
         /\ EmptyOrSameTurn(c)}

\* a bonus placement without a roll: cells of every column are accepted, an
\* occupied cell of this turn among them, and some occupied cell is refused
C20_Witness ==
  /\ Called("canPlaceInCell")
  /\ rlInput.state = BONUS
  /\ rlInput.rolls = NoRolls
  /\ \A col \in 0 .. Cols - 1 : \E c \in rlOut : c[2] = col
  /\ \E c \in rlOut : board[c] # Null
  /\ \E d \in Cells \ rlOut : board[d] # Null

(***************************************************************************)
(* C21: getTargetRowFromDiceSum is total and exact on the dice sums 2..12: *)
(* 3,4 -> row 0; 5,6 -> row 1; 7 -> row 2; 8,9 -> row 3; 10,11 -> row 4;   *)
(* for 2 and 12 it returns the row the player chose when one is supplied   *)
(* and -1 otherwise; a chosen row has no effect for the sums 3..11.        *)
(***************************************************************************)
C21_TargetRowTable ==
  scPc = "done" =>
    LET d == scInput.diceSum
        chosen == scInput.selectedRow
    IN  /\ d \in {3, 4} => scRow = 0
        /\ d \in {5, 6} => scRow = 1
        /\ d = 7 => scRow = 2
        /\ d \in {8, 9} => scRow = 3
        /\ d \in {10, 11} => scRow = 4
        /\ d \in {2, 12} /\ chosen # NullRow => scRow = chosen[1]
        /\ d \in {2, 12} /\ chosen = NullRow => scRow = -1

\* a row chosen with a sum of the table: the table's row is returned
C21_Witness ==
  /\ scPc = "done"
  /\ scInput.diceSum = 8
  /\ scInput.selectedRow = <<0>>
  /\ scRow = 3

(***************************************************************************)
(* C22: when a round completes with dice sum 2 or 12 and no row has been   *)
(* nominated, the score recorded for the round is 0 whatever the board     *)
(* holds; row 0 is not scored by default.                                  *)
(***************************************************************************)
C22_UnchosenStreetScoresZero ==
  [][\A i \in 1 .. Len(timers) :
       /\ scoreTimeoutAt(i)
       /\ timers[i].diceSum \in {2, 12}
       /\ currentRound \in 1 .. maxRounds
       => footerScores'[currentRound] = 0]_vars

(* C22, ScoringService alone: calculateStreetScore called without a row on *)
(* the sums 2 and 12 returns 0 whatever the board holds.                   *)
C22_ServiceScoresZeroWithoutRow ==
  scPc = "done" /\ scInput.diceSum \in {2, 12} /\ scInput.selectedRow = NullRow
    => scScore = 0

(***************************************************************************)
(* Reference notions for the plaza claims                                  *)
(***************************************************************************)
\* the types other than SQUARE found in the in-bounds neighbours of a cell
NeighbourTypes(b, c) ==
  {b[n] : n \in {m \in Cells : Adjacent(c, m) /\ b[m] \notin {Null, SQUARE}}}

Qualifies(b, c) ==
  b[c] = SQUARE /\ {HOUSE, FOREST, LAKE} \subseteq NeighbourTypes(b, c)

QualifyingPlazas(b) == {c \in Cells : Qualifies(b, c)}

\* the cells of the plazas reported by getPlazaBonusCells
ReportedPlazas == {rlOut[i].plaza : i \in 1 .. Len(rlOut)}

(***************************************************************************)
(* C23: calculatePlazaBonus is 10 times the number of SQUARE cells whose   *)
(* in-bounds orthogonal neighbours include a HOUSE, a FOREST and a LAKE;   *)
(* SQUARE at (2,2) with HOUSE at (1,2), FOREST at (2,1), LAKE at (3,2) and *)
(* any building at (2,3) gives 10.                                         *)
(***************************************************************************)
C23_PlazaBonusIsTenPerQualifyingSquare ==
  Called("calculatePlazaBonus") =>
    /\ rlOut = 10 * Cardinality(QualifyingPlazas(board))
    /\ board \in ExamplePlazaBoards => rlOut = 10

\* two plazas qualify through shared neighbours, a third SQUARE does not
C23_Witness ==
  /\ Called("calculatePlazaBonus")
  /\ rlOut = 20
  /\ Cardinality({c \in Cells : board[c] = SQUARE}) = 2

(***************************************************************************)
(* C24: a SQUARE in a corner cell of the board, which has only two         *)
(* in-bounds orthogonal neighbours, never qualifies for the plaza bonus.   *)
(***************************************************************************)
C24_CornerSquareNeverQualifies ==
  /\ Called("getPlazaBonusCells") => ReportedPlazas \cap CornerCells = {}
  /\ Called("calculatePlazaBonus") /\ board \in CornerPlazaBoards => rlOut = 0

\* a corner SQUARE with two different building types beside it
C24_Witness ==
  /\ Called("getPlazaBonusCells")
  /\ \E k \in CornerCells :
       /\ board[k] = SQUARE
       /\ Cardinality(NeighbourTypes(board, k)) = 2
  /\ rlOut = << >>

\* the board with the content of cell `from` copied into cell `to`
WithCopied(b, to, from) == [b EXCEPT ![to] = b[from]]

\* plazas reported with four buildings beside them
FourNeighbourPlazas ==
  {i \in 1 .. Len(rlOut) : Len(rlOut[i].adjacentBuildings) = 4}

cellOf(a) == <<a.row, a.col>>

(***************************************************************************)
(* C25: for a SQUARE whose four orthogonal neighbours hold HOUSE, FOREST   *)
(* and LAKE, so that it qualifies, swapping one neighbour to a type that   *)
(* duplicates another neighbour's type disqualifies the SQUARE.            *)
(***************************************************************************)
C25_AnySwapToDuplicateDisqualifies ==
  Called("getPlazaBonusCells") =>
    \A i \in FourNeighbourPlazas :
      LET adj == rlOut[i].adjacentBuildings
          p == rlOut[i].plaza
      IN  \A j, k \in 1 .. 4 :
            adj[j].building # adj[k].building =>
              ~isPlazaAdjacentToAllThree(WithCopied(board, cellOf(adj[j]), cellOf(adj[k])),
                                         p[1], p[2])

(* C25 as the code has it: every SQUARE whose four neighbours hold HOUSE,  *)
(* FOREST and LAKE qualifies; changing one neighbour to the type of        *)
(* another disqualifies the SQUARE exactly when the changed neighbour was  *)
(* the only one of its type, and leaves it qualified when the changed      *)
(* neighbour's type is held by a second neighbour.                         *)
C25_SwapOfSoleHolderDisqualifies ==
  Called("getPlazaBonusCells") =>
    /\ \A c \in Cells :
         /\ board[c] = SQUARE
         /\ Cardinality({n \in Cells : Adjacent(c, n) /\ board[n] \in {HOUSE, FOREST, LAKE}}) = 4
         /\ NeighbourTypes(board, c) = {HOUSE, FOREST, LAKE}
         => c \in ReportedPlazas
    /\ \A i \in FourNeighbourPlazas :
         LET adj == rlOut[i].adjacentBuildings
             p == rlOut[i].plaza
         IN  \A j, k \in 1 .. 4 :
               adj[j].building # adj[k].building =>
                 (isPlazaAdjacentToAllThree(WithCopied(board, cellOf(adj[j]), cellOf(adj[k])),
                                            p[1], p[2])
                  <=> \E l \in 1 .. 4 : l # j /\ adj[l].building = adj[j].building)

\* a plaza reported with four buildings beside it
C25_Witness ==
  /\ Called("getPlazaBonusCells")
  /\ FourNeighbourPlazas # {}

(***************************************************************************)
(* C26: the street score does not depend on the order in which the cells   *)
(* of the board are traversed: starting the flood fills from the cells in  *)
(* any permutation of the row/column order gives the same total.           *)
(***************************************************************************)
C26_StreetScoreIgnoresTraversalOrder ==
  scPc = "reordered" => rlOut = scScore

\* a scoring group of several cells whose fill starts, in the other order,
\* from a cell that the row/column order reaches later, off the target row
C26_Witness ==
  /\ scPc = "reordered"
  /\ scScore > 0
  /\ \E i \in 1 .. Len(scGroups) :
       /\ Len(scGroups[i]) >= 2
       /\ hasBuildingOnTargetStreet(scGroups[i], scRow)
       /\ rlInput.order[1] \in SeqToSet(scGroups[i])
       /\ rlInput.order[1] # scGroups[i][1]
       /\ rlInput.order[1][1] # scRow

(***************************************************************************)
(* C27: getBuildingFromDice is total on the faces 1..6 (1 and 4 give       *)
(* HOUSE, 2 and 5 FOREST, 3 and 6 LAKE), never returns SQUARE, and fails   *)
(* with an error for every value outside 1..6.                             *)
(***************************************************************************)
C27_BuildingFromDice ==
  Called("getBuildingFromDice") =>
    LET v == rlInput.diceValue
    IN  /\ v \in {1, 4} => rlOut = HOUSE
        /\ v \in {2, 5} => rlOut = FOREST
        /\ v \in {3, 6} => rlOut = LAKE
        /\ rlOut # SQUARE
        /\ v \notin 1 .. 6 => rlOut = "Error: Invalid dice value"

\* the call fails on the number after the last face
C27_Witness ==
  /\ Called("getBuildingFromDice")
  /\ rlInput.diceValue = 7
  /\ rlOut \notin Buildings

\* a completion of the round in progress has recorded its score and still
\* waits for its second timeout
ScoreOfRoundOnRecord ==
  \E j \in 1 .. Len(timers) :
    /\ timers[j].kind = "advance"
    /\ timers[j].scoreRan
    /\ timers[j].closeRound = currentRound

(***************************************************************************)
(* C28: footerScores always has length maxRounds; within one playthrough   *)
(* entry i is written at most once, when round i + 1 completes: no entry   *)
(* is written twice and none is written for another round than the one     *)
(* whose completion writes it.                                             *)
(***************************************************************************)
C28_RoundScoreWrittenOnceForItsRound ==
  [][/\ Len(footerScores') = maxRounds
     /\ \A i \in 1 .. Len(timers) :
          scoreTimeoutAt(i) =>
            /\ timers[i].closeRound = currentRound
            /\ ~ScoreOfRoundOnRecord]_vars

(* C28, first part alone: footerScores always has length maxRounds.        *)
C28_FooterScoresLength == Len(footerScores) = maxRounds

TurnTrackingCleared ==
  /\ currentTurnPlacements = {}
  /\ ~firstTurnPlaced
  /\ ~secondTurnPlaced

(***************************************************************************)
(* C29: currentTurnPlacements holds only cells whose building was placed   *)
(* in the turn in progress: it is empty, with both turn flags false, right *)
(* after every dice roll and after a game reset, and it holds no cell of   *)
(* an already scored turn while a bonus placement is validated.            *)
(***************************************************************************)
C29_TurnPlacementsOfTurnInProgress ==
  [][/\ rollDice => TurnTrackingCleared'
     /\ onPlayAgain => TurnTrackingCleared'
     /\ placementState = BONUS => currentTurnPlacements \cap completedTurnCells = {}]_vars

(* C29, parts: after a roll; after a reset; in the bonus stage.            *)
C29_ClearedAfterRoll == [][rollDice => TurnTrackingCleared']_vars

C29_ClearedAfterReset == [][onPlayAgain => TurnTrackingCleared']_vars

C29_NoScoredCellInBonus ==
  placementState = BONUS => currentTurnPlacements \cap completedTurnCells = {}

\* this step attempts to advance the round: the second timeout of a round
\* that is no bonus round, or an accepted bonus placement
AdvanceAttempted ==
  \/ \E i \in 1 .. Len(timers) : advanceTimeoutAt(i) /\ currentRound \notin bonusStageRounds
  \/ \E c \in ClickCells : PlacementAccepted(c) /\ placementState = BONUS

(***************************************************************************)
(* C30: advancing the round increments the counter while the result does   *)
(* not exceed maxRounds and otherwise sets the completion flag and leaves  *)
(* the counter as it is; hence 0 <= currentRound <= maxRounds always, and  *)
(* gameComplete becomes true only by an advance attempted from round       *)
(* maxRounds.                                                              *)
(***************************************************************************)
C30_AdvanceRoundStaysInRange ==
  [][/\ AdvanceAttempted =>
          [currentRound |-> currentRound', gameComplete |-> gameComplete']
            = advanceRound(currentRound, gameComplete, maxRounds)
     /\ currentRound' \in 0 .. maxRounds
     /\ gameComplete' /\ ~gameComplete =>
          AdvanceAttempted /\ currentRound = maxRounds /\ currentRound' = maxRounds]_vars

\* the game was flagged complete by the timeout of the last round, which
\* was no bonus round
C30_Witness ==
  /\ gameComplete
  /\ currentRound = maxRounds
  /\ bonusStageRounds = {}
  /\ footerScores[maxRounds] > 0

\* the game was flagged complete by the bonus placement of the last round
C30_WitnessBonus ==
  /\ gameComplete
  /\ currentRound = maxRounds
  /\ maxRounds \in DOMAIN bonusStageBuildings

\* this step is a call of setRoundScore
SetRoundScoreStep == rlInput'.fn = "setRoundScore" /\ rlPc' = "done"

OtherSessionFieldsKept ==
  UNCHANGED <<currentRound, gameComplete, inPreparationPhase, inBonusStage,
              usedBonusBuildings, bonusStageBuildings, currentTurnPlacements,
              firstTurnPlaced, secondTurnPlaced, selectedScoringRow>>

(***************************************************************************)
(* C31: setRoundScore(index, score) with index outside [0, maxRounds)      *)
(* leaves footerScores and every other session field unchanged and raises  *)
(* no error; with index inside the range it changes only entry index of    *)
(* footerScores.                                                           *)
(***************************************************************************)
C31_SetRoundScoreBoundsChecked ==
  [][SetRoundScoreStep =>
       LET index == rlInput'.roundIndex
       IN  /\ OtherSessionFieldsKept
           /\ Len(footerScores') = maxRounds
           /\ index \notin 0 .. maxRounds - 1 => footerScores' = footerScores
           /\ index \in 0 .. maxRounds - 1 =>
                /\ footerScores'[index + 1] = rlInput'.score
                /\ \A j \in 1 .. maxRounds :
                     j # index + 1 => footerScores'[j] = footerScores[j]]_vars

\* a call with the index one past the end made on scores that are not all 0
C31_Witness ==
  /\ rlPc = "done"
  /\ rlInput.fn = "setRoundScore"
  /\ rlInput.roundIndex = maxRounds
  /\ rlInput.score > 0
  /\ \E j \in 1 .. maxRounds : footerScores[j] > 0 /\ footerScores[j] # rlInput.score

\* this step completes the preparation turn
PreparationCompleted == inPreparationPhase /\ ~inPreparationPhase'

ScoreTimers(q) == {i \in 1 .. Len(q) : q[i].kind \in {"score", "advance"}}

(***************************************************************************)
(* C32: completing the preparation turn records no score and enters no     *)
(* bonus stage: it only leaves the preparation phase and sets the round to *)
(* 1, so all footerScores entries are 0 when round 1 starts, and the next  *)
(* roll yields FIRST or DOUBLES_FIRST, not a preparation state.            *)
(***************************************************************************)
C32_PreparationEndsWithoutScore ==
  [][/\ PreparationCompleted =>
          /\ currentRound' = 1
          /\ footerScores' = [j \in 1 .. maxRounds |-> 0]
          /\ ~inBonusStage'
          /\ placementState' = COMPLETE
          /\ Cardinality(ScoreTimers(timers')) = Cardinality(ScoreTimers(timers))
          /\ UNCHANGED <<gameComplete, usedBonusBuildings, bonusStageBuildings>>
     /\ rollDice /\ ~inPreparationPhase /\ placementState = COMPLETE =>
          placementState' = (IF currentRolls'[1] = currentRolls'[2]
                               THEN DOUBLES_FIRST ELSE FIRST)]_vars

\* round 1 has begun, and the roll after the preparation turn was doubles
C32_Witness ==
  /\ ~inPreparationPhase
  /\ currentRound = 1
  /\ rollCount = 2
  /\ placementState = DOUBLES_FIRST
  /\ footerScores = [j \in 1 .. maxRounds |-> 0]

\* a placement check of a turn in progress: dice rolled, the state neither
\* COMPLETE nor BONUS, a building selected where the state needs one, and the
\* cells of the turn occupied
TurnInProgressChecked ==
  /\ Called("canPlaceInCell")
  /\ rlInput.rolls # NoRolls
  /\ rlInput.state \notin {COMPLETE, BONUS}
  /\ isPreparationPhase(rlInput.state) => rlInput.selected # Null
  /\ \A c \in rlInput.turnPlacements : board[c] # Null

(***************************************************************************)
(* C33: no turn can get stuck: whenever dice are rolled, the game is not   *)
(* complete and the placement state is neither COMPLETE nor BONUS, at      *)
(* least one cell satisfies canPlaceInCell, also when the target column    *)
(* and the columns offered by the full-column fallback are all full.       *)
(***************************************************************************)
C33_SomeCellAcceptsPlacement ==
  TurnInProgressChecked => rlOut # {}

(* C33 where it holds: a cell is accepted whenever the target column or a   *)
(* neighbour of it has an empty cell.                                       *)
SpaceNearRollColumn ==
  \E c \in Cells :
    /\ board[c] = Null
    /\ c[2] - RollColumn(rlInput.state, rlInput.rolls) \in {-1, 0, 1}

C33_CellAcceptedWhereSpaceNearby ==
  TurnInProgressChecked /\ SpaceNearRollColumn => rlOut # {}

occupiedCells(b) == {c \in Cells : b[c] # Null}

\* this step is the accepted placement that closes a preparation or regular turn
TurnClosed ==
  /\ placementState # BONUS
  /\ placementState' = COMPLETE
  /\ \E c \in ClickCells : PlacementAccepted(c)

\* this step is an accepted bonus placement
BonusPlaced ==
  /\ placementState = BONUS
  /\ \E c \in ClickCells : PlacementAccepted(c)

(***************************************************************************)
(* C34: every completed preparation or regular turn adds exactly two       *)
(* buildings to the board compared with the board at the roll, and every   *)
(* bonus stage exactly one: a same-turn amendment, a step switch or a      *)
(* repeated placement in an already-placed step can neither finish the     *)
(* turn with fewer than two new occupied cells nor leave more than two.    *)
(***************************************************************************)
C34_TurnAddsTwoBuildings ==
  [][/\ TurnClosed =>
          /\ turnStartCells \subseteq occupiedCells(board')
          /\ Cardinality(occupiedCells(board') \ turnStartCells) = 2
     /\ BonusPlaced =>
          Cardinality(occupiedCells(board')) = Cardinality(occupiedCells(board)) + 1]_vars

(* C34, parts: a closed turn leaves at most two new occupied cells; it      *)
(* leaves at least two; a bonus placement adds one.                         *)
C34_AtMostTwoNewCells ==
  [][TurnClosed => Cardinality(occupiedCells(board') \ turnStartCells) <= 2]_vars

C34_AtLeastTwoNewCells ==
  [][TurnClosed => Cardinality(occupiedCells(board') \ turnStartCells) >= 2]_vars

C34_BonusAddsOneCell ==
  [][BonusPlaced =>
       Cardinality(occupiedCells(board')) = Cardinality(occupiedCells(board)) + 1]_vars

\* the roll on display is a doubles roll / a roll of two different faces
RollIsDoubles == currentRolls # NoRolls /\ currentRolls[1] = currentRolls[2]
RollIsMixed == currentRolls # NoRolls /\ currentRolls[1] # currentRolls[2]

\* this step writes a SQUARE on the board
SquareWritten ==
  \E c \in Cells : board'[c] = SQUARE /\ board[c] # SQUARE

C35_DoublesStateHasDoublesRoll ==
  currentRolls # NoRolls /\ placementState \in {DOUBLES_FIRST, DOUBLES_SQUARE}
    => RollIsDoubles

C35_MixedStateHasMixedRoll ==
  currentRolls # NoRolls /\ placementState \in {FIRST, SECOND} => RollIsMixed

C35_SquareOnlyUnderDoubles ==
  [][SquareWritten => RollIsDoubles]_vars

C35_ClosedDoublesTurnPlacedSquare ==
  [][TurnClosed /\ ~isPreparationPhase(placementState) /\ RollIsDoubles
       => \E c \in Cells : c \in currentTurnPlacements' /\ board'[c] = SQUARE]_vars

(***************************************************************************)
(* C36: a roll is produced once per turn: no roll is accepted while a roll *)
(* is present and the state is not COMPLETE, nor once the game is          *)
(* complete, nor between the closing placement of a round and the end of   *)
(* that round's completion sequence.                                       *)
(***************************************************************************)
C36_OneRollPerTurn ==
  [][rollDice =>
       /\ ~gameComplete
       /\ currentRolls # NoRolls => placementState = COMPLETE
       /\ ~CompletionPending]_vars

(* C36, parts: rolling is disabled while a roll is present in a state other *)
(* than COMPLETE and once the game is complete; no roll is accepted while a *)
(* round's completion is pending.                                           *)
C36_RollDisabledDuringTurn ==
  [][rollDice =>
       /\ ~gameComplete
       /\ currentRolls # NoRolls => placementState = COMPLETE]_vars

C36_NoRollWhileCompletionPending ==
  [][rollDice => ~CompletionPending]_vars

\* a second roll within one turn: the roll on display was cleared by the
\* timeout of the turn before
C36_NoRollInOpenTurn ==
  [][rollDice =>
       placementState \in {PREP_FIRST, COMPLETE, BONUS} \/ currentTurnPlacements = {}]_vars

\* this step raises the completion flag
GameCompleted == gameComplete' /\ ~gameComplete

\* the board, the scores and the round counter are left as they are
PlayFrozen ==
  /\ board' = board
  /\ footerScores' = footerScores
  /\ currentRound' = currentRound

(***************************************************************************)
(* C37: gameComplete becomes true only at the end of a full playthrough:   *)
(* the score of every round 1..maxRounds has been recorded, with no        *)
(* completion still pending, and every configured bonus round, and no      *)
(* other round, has its bonus placement; once gameComplete is true, no     *)
(* roll or placement changes the board, the scores or the round until the  *)
(* game is reset.                                                          *)
(***************************************************************************)
C37_CompleteOnlyAfterFullPlaythrough ==
  [][/\ GameCompleted =>
          /\ scoredRounds' = 1 .. maxRounds
          /\ DOMAIN bonusStageBuildings' = bonusStageRounds
          /\ \A i \in 1 .. Len(timers') : timers'[i].kind \notin {"score", "advance"}
     /\ gameComplete /\ (rollDice \/ \E c \in ClickCells : PlacementAccepted(c)) =>
          PlayFrozen]_vars

(* C37, parts: every round scored at the moment of completion; the bonus   *)
(* placements at that moment; no completion pending at that moment;        *)
(* nothing changed by a roll or a placement afterwards; no score written   *)
(* afterwards; no roll accepted afterwards.                                *)
C37_EveryRoundScoredAtCompletion ==
  [][GameCompleted => scoredRounds' = 1 .. maxRounds]_vars

C37_BonusRoundsPlayedAtCompletion ==
  [][GameCompleted => DOMAIN bonusStageBuildings' = bonusStageRounds]_vars

C37_NoCompletionPendingAtCompletion ==
  [][GameCompleted =>
       \A i \in 1 .. Len(timers') : timers'[i].kind \notin {"score", "advance"}]_vars

C37_FrozenOnceComplete ==
  [][gameComplete /\ (rollDice \/ \E c \in ClickCells : PlacementAccepted(c)) =>
       PlayFrozen]_vars

C37_NoScoreWrittenOnceComplete ==
  [][gameComplete /\ ~onPlayAgain => footerScores' = footerScores]_vars

C37_NoRollOnceComplete ==
  [][gameComplete => ~rollDice]_vars

(***************************************************************************)
(* C38: a SQUARE is never placed in a preparation state or in the bonus    *)
(* stage: the building selection never holds SQUARE, the available bonus   *)
(* buildings never contain SQUARE, and every step that writes a SQUARE on  *)
(* the board is a placement in state DOUBLES_SQUARE.                       *)
(***************************************************************************)
C38_SquareOnlyInDoublesSquare ==
  [][/\ selectedBuilding' # SQUARE
     /\ SQUARE \notin getAvailableBonusBuildings'
     /\ SquareWritten =>
          /\ placementState = DOUBLES_SQUARE
          /\ \E c \in ClickCells : PlacementAccepted(c)]_vars

\* a bonus building has been placed in a bonus stage and a SQUARE placed in
\* a doubles turn stands on the board, after a preparation turn with selections
C38_Witness ==
  /\ usedBonusBuildings # {}
  /\ \E c \in Cells : board[c] = SQUARE
  /\ \E c \in Cells : board[c] \in {HOUSE, LAKE, FOREST}
  /\ ~inPreparationPhase

\* this step is a call of resetGame on the session
ResetGameStep == rlPc' = "done" /\ rlInput'.fn = "resetGame"

\* the session fields that initializeGame lists are as after construction
ListedSessionFieldsInitial ==
  /\ currentRound = 0
  /\ inPreparationPhase
  /\ ~gameComplete
  /\ footerScores = [i \in 1 .. maxRounds |-> 0]
  /\ ~inBonusStage
  /\ usedBonusBuildings = {}
  /\ bonusStageBuildings = << >>
  /\ currentTurnPlacements = {}
  /\ ~firstTurnPlaced /\ ~secondTurnPlaced

\* the board and the fields of AppComponent are as after construction
BoardAndAppInitial ==
  /\ board = createEmptyBoard
  /\ currentRolls = NoRolls
  /\ placementState = PREP_FIRST

(***************************************************************************)
(* C39: resetGame (play again) after any sequence of operations restores   *)
(* the complete initial session: round 0, preparation phase, completion    *)
(* flag false, all scores 0, no used bonus buildings, empty round-to-      *)
(* building map, empty currentTurnPlacements with both flags false, no     *)
(* player-selected scoring row; play again also restores the empty board,  *)
(* no roll and state PREP_FIRST, and leaves nothing behind that makes the  *)
(* next playthrough differ from a first one.                               *)
(***************************************************************************)
C39_ResetRestoresInitialSession ==
  [][/\ ResetGameStep \/ onPlayAgain =>
          ListedSessionFieldsInitial' /\ selectedScoringRow' = NullRow
     /\ onPlayAgain => BoardAndAppInitial' /\ timers' = << >>]_vars

(* C39, parts: the fields listed by initializeGame; the selected scoring   *)
(* row; board, roll and state after play again; pending timeouts after     *)
(* play again.                                                             *)
C39_ListedFieldsRestored ==
  [][ResetGameStep \/ onPlayAgain => ListedSessionFieldsInitial']_vars

C39_SelectedRowCleared ==
  [][ResetGameStep \/ onPlayAgain => selectedScoringRow' = NullRow]_vars

C39_BoardAndAppRestored ==
  [][onPlayAgain => BoardAndAppInitial']_vars

C39_NoTimeoutOutlivesReset ==
  [][onPlayAgain => timers' = << >>]_vars

\* a reset has been called on a session with a score and a selected row
C39_ResetCalledOnUsedSession ==
  [][ResetGameStep =>
       ~(footerScores # [i \in 1 .. maxRounds |-> 0] /\ selectedScoringRow # NullRow)]_vars

\* in a first playthrough the preparation phase is played in the
\* preparation states only
C39_PreparationPlayedInPrepStates ==
  inPreparationPhase => isPreparationPhase(placementState)

====
